---- MODULE Spec2Model ----
(***************************************************************************)
(* Model of analyze_final.py (analyze_transactions): the reconciliation    *)
(* pass over a transaction ledger exported as CSV.                         *)
(*                                                                         *)
(* A Python str is modelled as the sequence of its Unicode code points, so *)
(* that strip(), replace(), int(), the `in` test, the regular expressions  *)
(* and the ordering of strings are computed as the interpreter computes    *)
(* them.  A CSV row is the sequence of its fields.                         *)
(***************************************************************************)
EXTENDS Integers, Sequences, FiniteSets, TLC

\* ------------------------------------------------------------------------
\* Marker tokens and literals of the source.
\* ------------------------------------------------------------------------
SALE == <<22770, 19978>>                      \* '売上'
TRANSFER == <<25391, 26367>>                  \* '振替'
EXPENSE == <<32076, 36027>>                   \* '経費'
ORDER_PREFIX == <<111, 114, 100, 101, 114, 95>>   \* 'order_'
ZERO_STR == <<48>>                            \* '0'
EMPTY_STR == <<>>                             \* ''

\* ------------------------------------------------------------------------
\* Character classes (restricted to the code points the inputs use).
\* ------------------------------------------------------------------------
\* \d of the re module and str.isdigit(): ASCII and full-width decimal digits.
IsDigit(c) == c \in 48..57 \/ c \in 65296..65305

DigitVal(c) == IF c \in 48..57 THEN c - 48 ELSE c - 65296

\* [A-Za-z0-9]
IsAsciiAlnum(c) == c \in 48..57 \/ c \in 65..90 \/ c \in 97..122

\* \w of the re module on str: alphanumerics of any script, and '_'.
IsWordChar(c) ==
    \/ IsAsciiAlnum(c)
    \/ c = 95
    \/ IsDigit(c)
    \/ c \in 12353..12438       \* hiragana
    \/ c \in 12449..12538       \* katakana
    \/ c \in 19968..40959       \* CJK unified ideographs

\* Whitespace removed by str.strip() and skipped by int().
IsSpace(c) ==
    \/ c \in 9..13
    \/ c \in 28..32
    \/ c \in {133, 160, 5760, 8232, 8233, 8239, 8287, 12288}
    \/ c \in 8192..8202

\* ------------------------------------------------------------------------
\* String operations.
\* ------------------------------------------------------------------------
RECURSIVE LStrip(_)
LStrip(s) == IF s # <<>> /\ IsSpace(Head(s)) THEN LStrip(Tail(s)) ELSE s

RECURSIVE RStrip(_)
RStrip(s) ==
    IF s # <<>> /\ IsSpace(s[Len(s)]) THEN RStrip(SubSeq(s, 1, Len(s) - 1)) ELSE s

\* str.strip()
Strip(s) == RStrip(LStrip(s))

\* str.replace(',', '')
RemoveCommas(s) == SelectSeq(s, LAMBDA c : c # 44)

\* sub in s
Contains(s, sub) ==
    \E i \in 0..(Len(s) - Len(sub)) : SubSeq(s, i + 1, i + Len(sub)) = sub

\* s < t for str: lexicographic by code point, a proper prefix sorts first.
RECURSIVE StrLess(_, _)
StrLess(s, t) ==
    IF t = <<>> THEN FALSE
    ELSE IF s = <<>> THEN TRUE
    ELSE IF Head(s) # Head(t) THEN Head(s) < Head(t)
    ELSE StrLess(Tail(s), Tail(t))

\* str.isdigit()
IsDigitStr(s) == s # <<>> /\ \A i \in 1..Len(s) : IsDigit(s[i])

\* The part of an int() literal after whitespace and sign.
IntBody(s) ==
    LET t == Strip(s)
    IN  IF t # <<>> /\ t[1] \in {43, 45} THEN Tail(t) ELSE t

\* int(s) succeeds: optional sign, then digits, single '_' allowed between two digits.
IsIntLiteral(s) ==
    LET b == IntBody(s)
    IN  /\ b # <<>>
        /\ \A i \in 1..Len(b) :
              \/ IsDigit(b[i])
              \/ /\ b[i] = 95
                 /\ i > 1
                 /\ i < Len(b)
                 /\ IsDigit(b[i - 1])
                 /\ IsDigit(b[i + 1])

RECURSIVE DigitsValue(_, _)
DigitsValue(b, acc) ==
    IF b = <<>> THEN acc
    ELSE IF Head(b) = 95 THEN DigitsValue(Tail(b), acc)
    ELSE DigitsValue(Tail(b), 10 * acc + DigitVal(Head(b)))

\* int(s), for a string int() accepts.
IntValue(s) ==
    LET t == Strip(s)
        v == DigitsValue(IntBody(s), 0)
    IN  IF t # <<>> /\ t[1] = 45 THEN 0 - v ELSE v

RECURSIVE NatToStr(_)
NatToStr(n) ==
    IF n < 10 THEN <<48 + n>> ELSE NatToStr(n \div 10) \o <<48 + (n % 10)>>

\* str(n), as the f-string formats an int.
IntToStr(n) == IF n < 0 THEN <<45>> \o NatToStr(0 - n) ELSE NatToStr(n)

\* re.match(r'(\d{4}/\d{2}/\d{2})', s) finds a match.
HasDatePrefix(s) ==
    /\ Len(s) >= 10
    /\ \A i \in {1, 2, 3, 4, 6, 7, 9, 10} : IsDigit(s[i])
    /\ s[5] = 47
    /\ s[8] = 47

\* date_match.group(1)
DateOnly(s) == SubSeq(s, 1, 10)

\* ------------------------------------------------------------------------
\* Insertion-ordered dict of lists (defaultdict(list)): a sequence of
\* [key, val] items in the order the keys were first inserted.
\* ------------------------------------------------------------------------
DictHas(d, k) == \E i \in 1..Len(d) : d[i].key = k

DictIndex(d, k) == CHOOSE i \in 1..Len(d) : d[i].key = k

\* d.get(k, [])
DictGet(d, k) == IF DictHas(d, k) THEN d[DictIndex(d, k)].val ELSE <<>>

\* d[k].append(x)
DictAppend(d, k, x) ==
    IF DictHas(d, k)
    THEN [d EXCEPT ![DictIndex(d, k)].val = Append(@, x)]
    ELSE Append(d, [key |-> k, val |-> <<x>>])

\* ------------------------------------------------------------------------
\* Record Loader and Classifier (the body of the reader loop).
\* ------------------------------------------------------------------------
\* The row is a candidate record: at least 8 fields, first field all digits.
IsCandidate(row) ==
    /\ Len(row) >= 8
    /\ row[1] # <<>>
    /\ IsDigitStr(Strip(row[1]))

\* The entry dict built from a row; `line` stands for the identity of the
\* dict object (the line it was created on), which no code reads.
MakeEntry(row, line) ==
    [ no           |-> IntValue(Strip(row[1])),
      date         |-> IF row[2] # <<>> THEN Strip(row[2]) ELSE EMPTY_STR,
      type         |-> IF row[3] # <<>> THEN Strip(row[3]) ELSE EMPTY_STR,
      category     |-> IF row[4] # <<>> THEN Strip(row[4]) ELSE EMPTY_STR,
      description  |-> IF row[5] # <<>> THEN Strip(row[5]) ELSE EMPTY_STR,
      counterparty |-> IF row[6] # <<>> THEN Strip(row[6]) ELSE EMPTY_STR,
      method       |-> IF row[7] # <<>> THEN Strip(row[7]) ELSE EMPTY_STR,
      amount       |-> IF row[8] # <<>> THEN RemoveCommas(Strip(row[8])) ELSE ZERO_STR,
      line         |-> line ]

\* Faulty variant of ClassifyRow: the category of a sale tested by substring.
ClassifyRowBySubstring(row) ==
    IF Contains(row[2], SALE) /\ Contains(row[4], SALE) THEN "sale"
    ELSE IF Contains(row[2], TRANSFER) /\ Contains(row[4], TRANSFER) THEN "transfer"
    ELSE "other"

\* The if / elif of the reader loop, on the raw row.
ClassifyRow(row) ==
    IF Contains(row[2], SALE) /\ Strip(row[4]) = SALE THEN "sale"
    ELSE IF Contains(row[2], TRANSFER) /\ Contains(row[4], TRANSFER) THEN "transfer"
    ELSE "other"

\* ------------------------------------------------------------------------
\* Matcher.
\* ------------------------------------------------------------------------
\* key = f"{date}_{amount}"
MatchKeyStr(date, amount) == date \o <<95>> \o IntToStr(amount)

\* Faulty variant of GroupStep: an amount int() rejects does not skip the
\* entry.
GroupStepAnyAmount(d, e) ==
    IF HasDatePrefix(e.date)
    THEN DictAppend(d, MatchKeyStr(DateOnly(e.date), IntValue(e.amount)), e)
    ELSE d

\* One iteration of the grouping loops: int() raising or the date pattern
\* failing leaves the mapping unchanged.
GroupStep(d, e) ==
    IF IsIntLiteral(e.amount) /\ HasDatePrefix(e.date)
    THEN DictAppend(d, MatchKeyStr(DateOnly(e.date), IntValue(e.amount)), e)
    ELSE d

RECURSIVE GroupFrom(_, _, _)
GroupFrom(d, entries, i) ==
    IF i > Len(entries) THEN d
    ELSE GroupFrom(GroupStep(d, entries[i]), entries, i + 1)

\* The whole grouping loop over a list of entries.
GroupByDateAmount(entries) == GroupFrom(<<>>, entries, 1)

\* Faulty variant of Surplus: the surplus taken from the front of the group.
SurplusFromFront(sales, transfers) ==
    IF Len(sales) > Len(transfers)
    THEN SubSeq(sales, 1, Len(sales) - Len(transfers))
    ELSE <<>>

\* sales[i] for i in range(len(transfers), len(sales))
Surplus(sales, transfers) ==
    IF Len(sales) > Len(transfers)
    THEN SubSeq(sales, Len(transfers) + 1, Len(sales))
    ELSE <<>>

\* Faulty variant of MatchedPairs: every transfer of the key counted as a pair.
MatchedPairsAllTransfers(sales, transfers) == Len(transfers)

\* min(len(sales), len(transfers))
MatchedPairs(sales, transfers) ==
    IF Len(sales) <= Len(transfers) THEN Len(sales) ELSE Len(transfers)

\* Faulty variant of SortKeyLess: the sequence number left out of the key.
SortKeyLessDateOnly(x, y) == StrLess(x.date, y.date)

\* (x['date'], x['no']) < (y['date'], y['no']) as tuples.
SortKeyLess(x, y) ==
    \/ StrLess(x.date, y.date)
    \/ x.date = y.date /\ x.no < y.no

\* list.sort(key=...) is stable: x goes after every element whose key is not greater.
RECURSIVE InsertSorted(_, _)
InsertSorted(sorted, x) ==
    IF sorted = <<>> THEN <<x>>
    ELSE IF SortKeyLess(x, sorted[Len(sorted)])
         THEN Append(InsertSorted(SubSeq(sorted, 1, Len(sorted) - 1), x),
                     sorted[Len(sorted)])
         ELSE Append(sorted, x)

RECURSIVE SortFrom(_, _, _)
SortFrom(sorted, list, i) ==
    IF i > Len(list) THEN sorted
    ELSE SortFrom(InsertSorted(sorted, list[i]), list, i + 1)

\* Faulty variant of SortUnmatchedSales: the list left in the order of the
\* loop over the keys.
SortUnmatchedSalesSkipped(list) == list

\* unmatched_sales.sort(key=lambda x: (x['date'], x['no']))
SortUnmatchedSales(list) == SortFrom(<<>>, list, 1)

\* ------------------------------------------------------------------------
\* Identifier Extractor.
\* ------------------------------------------------------------------------
\* Faulty variant of id_patterns: the order_ pattern listed first.
id_patterns_order_first ==
    << [kind |-> "prefix", prefix |-> ORDER_PREFIX, class |-> "alnum", min |-> 1],
       [kind |-> "prefix", prefix |-> <<109>>, class |-> "digit", min |-> 8],
       [kind |-> "prefix", prefix |-> <<122>>, class |-> "digit", min |-> 8],
       [kind |-> "prefix", prefix |-> <<100>>, class |-> "digit", min |-> 8],
       [kind |-> "word", prefix |-> <<>>, class |-> "digit", min |-> 9] >>

\* id_patterns, in list order.  "prefix" patterns are a literal followed by a
\* greedy run of a character class; the "word" pattern is \b\d{9,}\b.
id_patterns ==
    << [kind |-> "prefix", prefix |-> <<109>>, class |-> "digit", min |-> 8],
       [kind |-> "prefix", prefix |-> ORDER_PREFIX, class |-> "alnum", min |-> 1],
       [kind |-> "prefix", prefix |-> <<122>>, class |-> "digit", min |-> 8],
       [kind |-> "prefix", prefix |-> <<100>>, class |-> "digit", min |-> 8],
       [kind |-> "word", prefix |-> <<>>, class |-> "digit", min |-> 9] >>

InClass(class, c) == IF class = "digit" THEN IsDigit(c) ELSE IsAsciiAlnum(c)

\* Last index of the maximal run of `class` characters starting at i (i - 1 if none).
RunEnd(s, i, class) ==
    CHOOSE j \in (i - 1)..Len(s) :
        /\ \A k \in i..j : InClass(class, s[k])
        /\ j = Len(s) \/ ~InClass(class, s[j + 1])

\* Last index of the match of `pat` that starts at index i of s, 0 if there is none.
MatchEnd(pat, s, i) ==
    LET n == Len(pat.prefix)
        e == RunEnd(s, i + n, pat.class)
    IN  IF pat.kind = "prefix"
        THEN IF /\ i + n - 1 <= Len(s)
                /\ SubSeq(s, i, i + n - 1) = pat.prefix
                /\ e - (i + n) + 1 >= pat.min
             THEN e
             ELSE 0
        ELSE IF /\ IsDigit(s[i])
                /\ i = 1 \/ ~IsWordChar(s[i - 1])
                /\ e - i + 1 >= pat.min
                /\ e = Len(s) \/ ~IsWordChar(s[e + 1])
             THEN e
             ELSE 0

RECURSIVE FindFrom(_, _, _)
FindFrom(pat, s, i) ==
    IF i > Len(s) THEN <<>>
    ELSE LET e == MatchEnd(pat, s, i)
         IN  IF e > 0
             THEN <<SubSeq(s, i, e)>> \o FindFrom(pat, s, e + 1)
             ELSE FindFrom(pat, s, i + 1)

\* re.findall(pattern, desc): the non-overlapping matches, left to right.
FindAll(pat, s) == FindFrom(pat, s, 1)

RECURSIVE FoundFrom(_, _, _)
FoundFrom(pats, desc, k) ==
    IF k > Len(pats) THEN <<>>
    ELSE FindAll(pats[k], desc) \o FoundFrom(pats, desc, k + 1)

\* found_ids after the loop over id_patterns.
FoundIds(desc) == FoundFrom(id_patterns, desc, 1)

\* Faulty variant of IdStep: the last found identifier used.
IdStepLastFound(d, e) ==
    LET found_ids == FoundIds(e.description)
    IN  IF found_ids # <<>> THEN DictAppend(d, found_ids[Len(found_ids)], e) ELSE d

\* One iteration of the loop over all_entries: the entry joins the group of
\* found_ids[0], if there is one.
IdStep(d, e) ==
    LET found_ids == FoundIds(e.description)
    IN  IF found_ids # <<>> THEN DictAppend(d, found_ids[1], e) ELSE d

RECURSIVE IdsFrom(_, _, _)
IdsFrom(d, entries, i) ==
    IF i > Len(entries) THEN d
    ELSE IdsFrom(IdStep(d, entries[i]), entries, i + 1)

\* transactions_by_id after the loop over all_entries.
GroupByTransactionId(entries) == IdsFrom(<<>>, entries, 1)

\* ------------------------------------------------------------------------
\* Consistency Checker.
\* ------------------------------------------------------------------------
\* Faulty variant of CheckCategory: the Transfer rule tested before the
\* expense marker.
CheckCategoryTransferFirst(e) ==
    IF ~IsIntLiteral(e.amount) THEN "skipped"
    ELSE IF Contains(e.date, SALE) /\ e.category = SALE THEN "sales"
    ELSE IF Contains(e.date, TRANSFER) /\ Contains(e.category, TRANSFER) THEN "transfer"
    ELSE IF Contains(e.date, EXPENSE) THEN "expense"
    ELSE "none"

\* Faulty variant of CheckCategory: a sale recognised by its date field alone.
CheckCategorySaleByDate(e) ==
    IF ~IsIntLiteral(e.amount) THEN "skipped"
    ELSE IF Contains(e.date, SALE) THEN "sales"
    ELSE IF Contains(e.date, EXPENSE) THEN "expense"
    ELSE IF Contains(e.date, TRANSFER) /\ Contains(e.category, TRANSFER) THEN "transfer"
    ELSE "none"

\* The total an entry's amount is added to by the if / elif chain; "skipped"
\* when int() raises, "none" when no branch is taken.
CheckCategory(e) ==
    IF ~IsIntLiteral(e.amount) THEN "skipped"
    ELSE IF Contains(e.date, SALE) /\ e.category = SALE THEN "sales"
    ELSE IF Contains(e.date, EXPENSE) THEN "expense"
    ELSE IF Contains(e.date, TRANSFER) /\ Contains(e.category, TRANSFER) THEN "transfer"
    ELSE "none"

RECURSIVE TotalsFrom(_, _, _)
TotalsFrom(t, entries, i) ==
    IF i > Len(entries) THEN t
    ELSE LET e == entries[i]
             c == CheckCategory(e)
         IN  TotalsFrom(
                 IF c \in {"sales", "expense", "transfer"}
                 THEN [t EXCEPT ![c] = @ + IntValue(e.amount)]
                 ELSE t,
                 entries, i + 1)

\* sales_total, expense_total and transfer_total after the loop over a group.
GroupTotals(entries) ==
    TotalsFrom([sales |-> 0, expense |-> 0, transfer |-> 0], entries, 1)

\* Faulty variant of IsEligible: groups of two checked as well.
IsEligibleFromTwo(entries) == Len(entries) >= 2

\* len(entries) >= 3
IsEligible(entries) == Len(entries) >= 3

\* transfer_total > 0 and sales_total > 0
IsEvaluated(t) == t.transfer > 0 /\ t.sales > 0

Abs(n) == IF n < 0 THEN 0 - n ELSE n

\* Faulty variant of ExceedsTolerance: a difference of 1 flagged as well.
ExceedsToleranceFromOne(t) == Abs(t.transfer - (t.sales - t.expense)) >= 1

\* diff > 1, with diff = abs(transfer_total - expected_transfer)
ExceedsTolerance(t) == Abs(t.transfer - (t.sales - t.expense)) > 1

\* The dict appended to inconsistencies.
MakeInconsistency(trans_id, entries, t) ==
    [ id         |-> trans_id,
      sales      |-> t.sales,
      expenses   |-> t.expense,
      transfer   |-> t.transfer,
      expected   |-> t.sales - t.expense,
      difference |-> t.transfer - (t.sales - t.expense),
      entries    |-> Len(entries) ]

\* inconsistencies.sort(key=lambda x: abs(x['difference']), reverse=True):
\* stable, x goes after every element whose key is not smaller.
RECURSIVE InsertByDiscrepancy(_, _)
InsertByDiscrepancy(sorted, x) ==
    IF sorted = <<>> THEN <<x>>
    ELSE IF Abs(x.difference) > Abs(sorted[Len(sorted)].difference)
         THEN Append(InsertByDiscrepancy(SubSeq(sorted, 1, Len(sorted) - 1), x),
                     sorted[Len(sorted)])
         ELSE Append(sorted, x)

RECURSIVE SortByDiscrepancyFrom(_, _, _)
SortByDiscrepancyFrom(sorted, list, i) ==
    IF i > Len(list) THEN sorted
    ELSE SortByDiscrepancyFrom(InsertByDiscrepancy(sorted, list[i]), list, i + 1)

\* Faulty variant of SortByDiscrepancy: the list left in the order in which
\* the groups were flagged.
SortByDiscrepancySkipped(list) == list

SortByDiscrepancy(list) == SortByDiscrepancyFrom(<<>>, list, 1)

\* ------------------------------------------------------------------------
\* The reader loop and the Matcher as one function of the file.
\* ------------------------------------------------------------------------
\* The three lists after the reader loop has handled rows 1 .. Len(file).
RECURSIVE LoadFrom(_, _, _)
LoadFrom(acc, file, i) ==
    IF i > Len(file) THEN acc
    ELSE LET row == file[i]
             entry == MakeEntry(row, i)
             class == ClassifyRow(row)
         IN  LoadFrom(
                 IF IsCandidate(row)
                 THEN [ all       |-> Append(acc.all, entry),
                        sales     |-> IF class = "sale" THEN Append(acc.sales, entry)
                                      ELSE acc.sales,
                        transfers |-> IF class = "transfer"
                                      THEN Append(acc.transfers, entry)
                                      ELSE acc.transfers ]
                 ELSE acc,
                 file, i + 1)

LoadFile(file) == LoadFrom([all |-> <<>>, sales |-> <<>>, transfers |-> <<>>], file, 1)

\* The loop over the keys of sales_by_date_amount, from the k-th key.
RECURSIVE MatchFrom(_, _, _, _)
MatchFrom(acc, sales_by, transfers_by, k) ==
    IF k > Len(sales_by) THEN acc
    ELSE LET sales == sales_by[k].val
             transfers == DictGet(transfers_by, sales_by[k].key)
         IN  MatchFrom([ matched_count |-> acc.matched_count
                                            + MatchedPairs(sales, transfers),
                         surplus |-> acc.surplus \o Surplus(sales, transfers) ],
                       sales_by, transfers_by, k + 1)

\* matched_count, unmatched_sales before the sort (surplus) and after it.
MatcherOn(file) ==
    LET loaded == LoadFile(file)
        m == MatchFrom([matched_count |-> 0, surplus |-> <<>>],
                       GroupByDateAmount(loaded.sales),
                       GroupByDateAmount(loaded.transfers), 1)
    IN  [ matched_count   |-> m.matched_count,
          surplus         |-> m.surplus,
          unmatched_sales |-> SortUnmatchedSales(m.surplus) ]

\* ------------------------------------------------------------------------
\* Report.  A printed line is a record whose `kind` names the print
\* statement and whose other fields are the values it formats; headings
\* without a value are not recorded.  A step that can raise yields
\* [out, raised]: the lines printed before the exception and whether one
\* was raised.
\* ------------------------------------------------------------------------
\* `if shown >= 30`
ListingLimit == 30

\* sale['description'][:60]
DescriptionLimit == 60

\* inconsistencies[:10]
ReportLimit == 10

\* s[:n]
Prefix(s, n) == IF Len(s) <= n THEN s ELSE SubSeq(s, 1, n)

\* The warning of the grouping loops for each entry whose amount int()
\* rejects.
RECURSIVE GroupingWarnings(_, _)
GroupingWarnings(entries, kind) ==
    IF entries = <<>> THEN <<>>
    ELSE (IF IsIntLiteral(Head(entries).amount) THEN <<>>
          ELSE <<[kind |-> kind, no |-> Head(entries).no]>>)
         \o GroupingWarnings(Tail(entries), kind)

\* The lines printed between the reader loop and the Matcher.
CountLines(lines, entries, sales, transfers) ==
    << [kind |-> "counts", lines |-> lines, total |-> Len(entries),
        sales |-> Len(sales), transfers |-> Len(transfers),
        difference |-> Len(sales) - Len(transfers)] >>
    \o GroupingWarnings(sales, "error_sale")
    \o GroupingWarnings(transfers, "error_transfer")

\* The lines printed after the loop over the keys.
MatchedLines(matched, unmatched) ==
    << [kind |-> "matched", matched |-> matched, unmatched |-> Len(unmatched)] >>

\* unmatched_by_date[date].append(sale), for the sales the pattern matches.
RECURSIVE GroupByDateFrom(_, _, _)
GroupByDateFrom(d, sales, i) ==
    IF i > Len(sales) THEN d
    ELSE GroupByDateFrom(
             IF HasDatePrefix(sales[i].date)
             THEN DictAppend(d, DateOnly(sales[i].date), sales[i])
             ELSE d,
             sales, i + 1)

GroupByDate(sales) == GroupByDateFrom(<<>>, sales, 1)

RECURSIVE InsertKey(_, _)
InsertKey(sorted, k) ==
    IF sorted = <<>> THEN <<k>>
    ELSE IF StrLess(k, sorted[Len(sorted)])
         THEN Append(InsertKey(SubSeq(sorted, 1, Len(sorted) - 1), k),
                     sorted[Len(sorted)])
         ELSE Append(sorted, k)

RECURSIVE SortedKeysFrom(_, _, _)
SortedKeysFrom(sorted, d, i) ==
    IF i > Len(d) THEN sorted
    ELSE SortedKeysFrom(InsertKey(sorted, d[i].key), d, i + 1)

\* sorted(d.keys())
SortedKeys(d) == SortedKeysFrom(<<>>, d, 1)

\* The one or two lines printed for a sale of the listing.
SaleLines(sale) ==
    << [kind |-> "sale", no |-> sale.no, amount |-> IntValue(sale.amount),
        counterparty |-> sale.counterparty] >>
    \o (IF sale.description # <<>>
        THEN << [kind |-> "description",
                 text |-> Prefix(sale.description, DescriptionLimit)] >>
        ELSE <<>>)

\* `for sale in sales` of the listing, from the i-th sale of the date.
RECURSIVE ShowSales(_, _, _)
ShowSales(sales, i, st) ==
    IF i > Len(sales) \/ st.shown >= ListingLimit THEN st
    ELSE IF ~IsIntLiteral(sales[i].amount) THEN [st EXCEPT !.raised = TRUE]
    ELSE ShowSales(sales, i + 1,
                   [st EXCEPT !.out = @ \o SaleLines(sales[i]), !.shown = @ + 1])

\* `for date in sorted(unmatched_by_date.keys())`, from the k-th date.
RECURSIVE ShowDates(_, _, _, _, _)
ShowDates(dates, k, by_date, total, st) ==
    IF k > Len(dates) \/ st.raised THEN st
    ELSE IF st.shown >= ListingLimit
         THEN [st EXCEPT !.out = Append(@, [kind |-> "more",
                                            remaining |-> total - st.shown])]
         ELSE ShowDates(dates, k + 1, by_date, total,
                        ShowSales(DictGet(by_date, dates[k]), 1,
                                  [st EXCEPT !.out = Append(@, [kind |-> "date",
                                                                date |-> dates[k]])]))

\* The listing of the unmatched sales.
Listing(unmatched) ==
    LET by_date == GroupByDate(unmatched)
    IN  ShowDates(SortedKeys(by_date), 1, by_date, Len(unmatched),
                  [out |-> <<>>, shown |-> 0, raised |-> FALSE])

\* unmatched_by_counterparty[sale['counterparty']].append(sale)
RECURSIVE GroupByCounterpartyFrom(_, _, _)
GroupByCounterpartyFrom(d, sales, i) ==
    IF i > Len(sales) THEN d
    ELSE GroupByCounterpartyFrom(DictAppend(d, sales[i].counterparty, sales[i]),
                                 sales, i + 1)

GroupByCounterparty(sales) == GroupByCounterpartyFrom(<<>>, sales, 1)

RECURSIVE InsertByCount(_, _)
InsertByCount(sorted, item) ==
    IF sorted = <<>> THEN <<item>>
    ELSE IF Len(item.val) > Len(sorted[Len(sorted)].val)
         THEN Append(InsertByCount(SubSeq(sorted, 1, Len(sorted) - 1), item),
                     sorted[Len(sorted)])
         ELSE Append(sorted, item)

RECURSIVE SortByCountFrom(_, _, _)
SortByCountFrom(sorted, d, i) ==
    IF i > Len(d) THEN sorted
    ELSE SortByCountFrom(InsertByCount(sorted, d[i]), d, i + 1)

\* sorted(d.keys(), key=lambda x: len(d[x]), reverse=True), as items
SortByCount(d) == SortByCountFrom(<<>>, d, 1)

\* int(s['amount']) accepts the amount of every sale of the list.
AllAmountsInt(sales) == \A i \in 1..Len(sales) : IsIntLiteral(sales[i].amount)

\* sum(int(s['amount']) for s in sales)
RECURSIVE SumOfAmounts(_)
SumOfAmounts(sales) ==
    IF sales = <<>> THEN 0
    ELSE IntValue(Head(sales).amount) + SumOfAmounts(Tail(sales))

\* The loop over the counterparties, from the k-th one.
RECURSIVE CounterpartyLines(_, _, _)
CounterpartyLines(items, k, st) ==
    IF k > Len(items) THEN st
    ELSE IF ~AllAmountsInt(items[k].val) THEN [st EXCEPT !.raised = TRUE]
    ELSE CounterpartyLines(items, k + 1,
             [st EXCEPT !.out = Append(@, [kind |-> "counterparty",
                                           counterparty |-> items[k].key,
                                           count |-> Len(items[k].val),
                                           total |-> SumOfAmounts(items[k].val)])])

\* unmatched_amounts: the amounts int() accepts.
RECURSIVE IntAmounts(_)
IntAmounts(sales) ==
    IF sales = <<>> THEN <<>>
    ELSE (IF IsIntLiteral(Head(sales).amount)
          THEN <<IntValue(Head(sales).amount)>> ELSE <<>>)
         \o IntAmounts(Tail(sales))

RECURSIVE SeqSum(_)
SeqSum(q) == IF q = <<>> THEN 0 ELSE Head(q) + SeqSum(Tail(q))

SeqMin(q) == CHOOSE x \in {q[i] : i \in 1..Len(q)} : \A i \in 1..Len(q) : x <= q[i]

SeqMax(q) == CHOOSE x \in {q[i] : i \in 1..Len(q)} : \A i \in 1..Len(q) : x >= q[i]

\* The statistics block; the average is printed from total and count.
StatisticsLines(amounts) ==
    IF amounts = <<>> THEN <<>>
    ELSE << [kind |-> "statistics", min |-> SeqMin(amounts),
             max |-> SeqMax(amounts), total |-> SeqSum(amounts),
             count |-> Len(amounts)] >>

\* re.match(r'(\d{4}/\d{2})', s)
HasMonthPrefix(s) ==
    /\ Len(s) >= 7
    /\ \A i \in {1, 2, 3, 4, 6, 7} : IsDigit(s[i])
    /\ s[5] = 47

MonthOnly(s) == SubSeq(s, 1, 7)

\* unmatched_by_month, kept as the sales of each month.
RECURSIVE GroupByMonthFrom(_, _, _)
GroupByMonthFrom(d, sales, i) ==
    IF i > Len(sales) THEN d
    ELSE GroupByMonthFrom(
             IF HasMonthPrefix(sales[i].date)
             THEN DictAppend(d, MonthOnly(sales[i].date), sales[i])
             ELSE d,
             sales, i + 1)

GroupByMonth(sales) == GroupByMonthFrom(<<>>, sales, 1)

MonthLines(sales) ==
    LET by_month == GroupByMonth(sales)
        months == SortedKeys(by_month)
    IN  [k \in 1..Len(months) |->
            [kind |-> "month", month |-> months[k],
             count |-> Len(DictGet(by_month, months[k]))]]

\* The pattern analysis of the unmatched sales.
Patterns(unmatched) ==
    LET st == CounterpartyLines(SortByCount(GroupByCounterparty(unmatched)), 1,
                                [out |-> <<>>, raised |-> FALSE])
    IN  IF st.raised THEN st
        ELSE [st EXCEPT !.out = @ \o StatisticsLines(IntAmounts(unmatched))
                                  \o MonthLines(unmatched)]

\* The report of the sorted inconsistencies; the six lines of a group are
\* one record.
InconsistencyLines(incs) ==
    IF incs # <<>>
    THEN << [kind |-> "found_inconsistencies", count |-> Len(incs)] >>
         \o [i \in 1..Len(Prefix(incs, ReportLimit)) |->
                [kind |-> "inconsistency", rank |-> i, inc |-> incs[i]]]
         \o (IF Len(incs) > ReportLimit
             THEN << [kind |-> "more_inconsistencies",
                      count |-> Len(incs) - ReportLimit] >>
             ELSE <<>>)
    ELSE << [kind |-> "no_inconsistencies"] >>

\* sum(abs(inc['difference']) for inc in inconsistencies)
RECURSIVE TotalDiscrepancy(_)
TotalDiscrepancy(incs) ==
    IF incs = <<>> THEN 0
    ELSE Abs(Head(incs).difference) + TotalDiscrepancy(Tail(incs))

\* The final summary: int() raises on an amount that is no integer, the
\* percentage on an empty sales_entries.
SummaryLines(sales, transfers, matched, unmatched, incs) ==
    LET head == << [kind |-> "summary", sales |-> Len(sales),
                    transfers |-> Len(transfers), matched |-> matched,
                    unmatched |-> Len(unmatched)] >>
        total == << [kind |-> "unmatched_total", total |-> SumOfAmounts(unmatched)] >>
        percentage == << [kind |-> "percentage", unmatched |-> Len(unmatched),
                          sales |-> Len(sales)] >>
        discrepancy ==
            IF incs # <<>>
            THEN << [kind |-> "discrepancy", count |-> Len(incs),
                     total |-> TotalDiscrepancy(incs)] >>
            ELSE <<>>
    IN  IF unmatched = <<>> THEN [out |-> head \o discrepancy, raised |-> FALSE]
        ELSE IF ~AllAmountsInt(unmatched) THEN [out |-> head, raised |-> TRUE]
        ELSE IF Len(sales) = 0 THEN [out |-> head \o total, raised |-> TRUE]
        ELSE [out |-> head \o total \o percentage \o discrepancy, raised |-> FALSE]

\* ------------------------------------------------------------------------
\* Converter (mercari_to_yayoi_converter.py): literals.
\* ------------------------------------------------------------------------
MERCARI == <<12513, 12523, 12459, 12522>>   \* 'メルカリ'
MERCARI_SHOP == <<12513, 12523, 12459, 12522, 83, 72, 79, 80>>   \* 'メルカリSHOP'
RECEIVABLE_MERCARI == <<22770, 25499, 37329, 65288, 12513, 12523, 12459, 12522, 65289>>   \* '売掛金（メルカリ）'
RECEIVABLE_MERCARI_SHOP == <<22770, 25499, 37329, 65288, 12513, 12523, 12459, 12522, 83, 72, 79, 80, 65289>>   \* '売掛金（メルカリSHOP）'
TRANSFER_MERCARI == <<22770, 25499, 37329, 65288, 12513, 12523, 12459, 12522, 65289, 8658, 12381, 12398, 20182, 12398, 38928, 37329>>   \* '売掛金（メルカリ）⇒その他の預金'
TRANSFER_MERCARI_SHOP == <<22770, 25499, 37329, 65288, 12513, 12523, 12459, 12522, 83, 72, 79, 80, 65289, 8658, 12381, 12398, 20182, 12398, 38928, 37329>>   \* '売掛金（メルカリSHOP）⇒その他の預金'
RECEIVABLE_YAHOO == <<22770, 25499, 37329, 65288, 12516, 12501, 12458, 12463, 65289>>   \* '売掛金（ヤフオク）'
TRANSFER_YAHOO == <<22770, 25499, 37329, 65288, 12516, 12501, 12458, 12463, 65289, 8658, 12381, 12398, 20182, 12398, 38928, 37329>>   \* '売掛金（ヤフオク）⇒その他の預金'
OTHER_DEPOSIT == <<12381, 12398, 20182, 12398, 38928, 37329>>   \* 'その他の預金'
SALES_FEE_ACCOUNT == <<25903, 25173, 25163, 25968, 26009>>   \* '支払手数料'
SHIPPING_ACCOUNT == <<33655, 36896, 36939, 36035>>   \* '荷造運賃'

\* A value of the transaction dict that is None (a row shorter than the
\* header), and a key the dict does not have; no string has these elements.
NONE == <<-1>>

ABSENT == <<-2>>

\* ------------------------------------------------------------------------
\* format_date: datetime.strptime with three formats, then strftime.
\* ------------------------------------------------------------------------
\* The regular expression _strptime builds for a directive, as its ordered
\* alternatives; each alternative has a length and a test on the characters
\* from position i.
FieldAlternatives(directive) ==
    CASE directive = "Y" -> 1
      [] directive = "m" -> 3
      [] directive = "d" -> 5
      [] directive = "H" -> 3
      [] directive = "M" -> 2
      [] directive = "S" -> 3

AlternativeLen(directive, a) ==
    CASE directive = "Y" -> 4
      [] directive = "m" -> IF a = 3 THEN 1 ELSE 2
      [] directive = "d" -> IF a = 4 THEN 1 ELSE 2
      [] directive = "H" -> IF a = 3 THEN 1 ELSE 2
      [] directive = "M" -> IF a = 2 THEN 1 ELSE 2
      [] directive = "S" -> IF a = 3 THEN 1 ELSE 2

AlternativeMatches(directive, a, s, i) ==
    /\ i + AlternativeLen(directive, a) - 1 <= Len(s)
    /\ LET c == s[i]
           e == s[i + 1]
       IN  CASE directive = "Y" ->
                  \A k \in 0..3 : IsDigit(s[i + k])
             [] directive = "m" ->
                  ( CASE a = 1 -> c = 49 /\ e \in 48..50
                      [] a = 2 -> c = 48 /\ e \in 49..57
                      [] a = 3 -> c \in 49..57 )
             [] directive = "d" ->
                  ( CASE a = 1 -> c = 51 /\ e \in 48..49
                      [] a = 2 -> c \in 49..50 /\ IsDigit(e)
                      [] a = 3 -> c = 48 /\ e \in 49..57
                      [] a = 4 -> c \in 49..57
                      [] a = 5 -> c = 32 /\ e \in 49..57 )
             [] directive = "H" ->
                  ( CASE a = 1 -> c = 50 /\ e \in 48..51
                      [] a = 2 -> c \in 48..49 /\ IsDigit(e)
                      [] a = 3 -> IsDigit(c) )
             [] directive = "M" ->
                  ( CASE a = 1 -> c \in 48..53 /\ IsDigit(e)
                      [] a = 2 -> IsDigit(c) )
             [] directive = "S" ->
                  ( CASE a = 1 -> c = 54 /\ e \in 48..49
                      [] a = 2 -> c \in 48..53 /\ IsDigit(e)
                      [] a = 3 -> IsDigit(c) )

IsDirective(token) == token \in {"Y", "m", "d", "H", "M", "S"}

\* The character a literal of the format stands for.
LiteralChar(token) ==
    CASE token = "/" -> 47
      [] token = "-" -> 45
      [] token = ":" -> 58

\* The whitespace characters from position i on.
RECURSIVE SpaceRun(_, _)
SpaceRun(s, i) ==
    IF i <= Len(s) /\ IsSpace(s[i]) THEN 1 + SpaceRun(s, i + 1) ELSE 0

NoMatch == [ok |-> FALSE, end |-> 0, Y |-> 0, m |-> 0, d |-> 0, H |-> 0, M |-> 0, S |-> 0]

\* The match with an alternative if the rest matches with it, else the match
\* with the alternatives after it.
FirstMatch(rest, others) == IF rest.ok THEN rest ELSE others

\* re.match of the format's expression from token k at position i: the first
\* alternative of a directive with which the rest matches is taken; a space
\* of the format matches \s+.
RECURSIVE MatchFormat(_, _, _, _, _)
RECURSIVE MatchDirective(_, _, _, _, _, _)
MatchFormat(s, i, format, k, found) ==
    IF k > Len(format) THEN [found EXCEPT !.ok = TRUE, !.end = i]
    ELSE IF IsDirective(format[k]) THEN MatchDirective(s, i, format, k, found, 1)
    ELSE IF format[k] = " "
         THEN IF SpaceRun(s, i) >= 1
              THEN MatchFormat(s, i + SpaceRun(s, i), format, k + 1, found)
              ELSE NoMatch
    ELSE IF i <= Len(s) /\ s[i] = LiteralChar(format[k])
         THEN MatchFormat(s, i + 1, format, k + 1, found)
         ELSE NoMatch

MatchDirective(s, i, format, k, found, a) ==
    IF a > FieldAlternatives(format[k]) THEN NoMatch
    ELSE IF ~AlternativeMatches(format[k], a, s, i)
         THEN MatchDirective(s, i, format, k, found, a + 1)
    ELSE FirstMatch(
             MatchFormat(s, i + AlternativeLen(format[k], a), format, k + 1,
                         [found EXCEPT ![format[k]] =
                             IntValue(SubSeq(s, i, i + AlternativeLen(format[k], a) - 1))]),
             MatchDirective(s, i, format, k, found, a + 1))

IsLeapYear(y) == y % 4 = 0 /\ (y % 100 # 0 \/ y % 400 = 0)

DaysInMonth(y, m) ==
    IF m = 2 THEN (IF IsLeapYear(y) THEN 29 ELSE 28)
    ELSE IF m \in {4, 6, 9, 11} THEN 30
    ELSE 31

\* datetime.strptime(s, format): the match must cover the whole string and
\* the fields must make a datetime, else ValueError (ok = FALSE).
IsDatetime(found, s) ==
    /\ found.ok
    /\ found.end = Len(s) + 1
    /\ found.Y >= 1
    /\ found.d <= DaysInMonth(found.Y, found.m)
    /\ found.S <= 59

Checked(found, s) == IF IsDatetime(found, s) THEN found ELSE NoMatch

Strptime(s, format) == Checked(MatchFormat(s, 1, format, 1, NoMatch), s)

\* '%02d'
TwoDigits(n) == IF n < 10 THEN <<48>> \o NatToStr(n) ELSE NatToStr(n)

\* dt.strftime("%Y/%m/%d"); the C library does not pad the year.
Strftime(dt) == NatToStr(dt.Y) \o <<47>> \o TwoDigits(dt.m) \o <<47>> \o TwoDigits(dt.d)

FORMAT_SHOP == <<"Y", "/", "m", "/", "d", " ", "H", ":", "M", ":", "S">>

FORMAT_REGULAR == <<"Y", "-", "m", "-", "d", " ", "H", ":", "M", ":", "S">>

FORMAT_DATE_ONLY == <<"Y", "-", "m", "-", "d">>

\* `return parsed.strftime(...)` in a try whose except goes on
Formatted(parsed, otherwise) == IF parsed.ok THEN Strftime(parsed) ELSE otherwise

format_date(date_str) ==
    Formatted(Strptime(Strip(date_str), FORMAT_SHOP),
        Formatted(Strptime(date_str, FORMAT_REGULAR),
            Formatted(Strptime(date_str, FORMAT_DATE_ONLY), date_str)))

\* ------------------------------------------------------------------------
\* create_yayoi_transactions.  A marketplace transaction is a record whose
\* fields date, product_id, product_name, product_price, sales_fee,
\* shipping_fee and sales_profit hold the values under the keys 購入完了日,
\* 商品ID, 商品名, 商品代金, 販売手数料, 配送料 and 販売利益.  A ledger entry is a
\* record whose fields date, classification, account, description,
\* counterparty, method and amount stand for the keys 取引日, 取引分類, 科目,
\* 摘要, 取引先, 取引手段 and 金額.
\* ------------------------------------------------------------------------
\* d.get(key, default) for a string default
Get(v, default) == IF v = ABSENT THEN default ELSE v

\* int(d.get(key, 0)) returns: the default 0 is an int, None raises
\* TypeError, a string is parsed.
IntAccepts(v) == v = ABSENT \/ (v # NONE /\ IsIntLiteral(v))

IntOf(v) == IF v = ABSENT THEN 0 ELSE IntValue(v)

\* int(...) with `except (ValueError, TypeError)` giving 0
IntOrZero(v) == IF IntAccepts(v) THEN IntOf(v) ELSE 0

\* The four replace calls: U+202F, U+00A0, U+2009 and U+200A become ' '.
ReplaceSpaces(s) ==
    [i \in 1..Len(s) |-> IF s[i] \in {8239, 160, 8201, 8202} THEN 32 ELSE s[i]]

\* Faulty variant of IsCharged: a fee of 0 gets an entry as well.
IsChargedFromZero(fee) == fee >= 0

\* `if sales_fee > 0`, `if shipping_fee > 0`
IsCharged(fee) == fee > 0

\* One ledger entry: the dict literal with its seven keys, 金額 being
\* str(amount).
LedgerEntry(date, classification, account, description, counterparty, method, amount) ==
    [ date |-> date, classification |-> classification, account |-> account,
      description |-> description, counterparty |-> counterparty,
      method |-> method, amount |-> IntToStr(amount) ]

\* The entries built from the values the function has computed: the sale,
\* then the sales fee and the shipping fee if charged.
Entries(date, description, counterparty, accounts_receivable, product_price, sales_fee, shipping_fee) ==
    << LedgerEntry(date, SALE, SALE, description, counterparty,
                   accounts_receivable, product_price) >>
    \o (IF IsCharged(sales_fee)
        THEN << LedgerEntry(date, EXPENSE, SALES_FEE_ACCOUNT, description,
                            counterparty, OTHER_DEPOSIT, sales_fee) >>
        ELSE <<>>)
    \o (IF IsCharged(shipping_fee)
        THEN << LedgerEntry(date, EXPENSE, SHIPPING_ACCOUNT, description,
                            counterparty, OTHER_DEPOSIT, shipping_fee) >>
        ELSE <<>>)

create_yayoi_transactions(mercari_transaction, shop) ==
    IF ~IntAccepts(mercari_transaction.product_price) THEN <<>>
    ELSE Entries(format_date(Get(mercari_transaction.date, EMPTY_STR)),
                 Get(mercari_transaction.product_id, EMPTY_STR) \o <<32>>
                     \o ReplaceSpaces(Get(mercari_transaction.product_name, EMPTY_STR)),
                 IF shop THEN MERCARI_SHOP ELSE MERCARI,
                 IF shop THEN RECEIVABLE_MERCARI_SHOP ELSE RECEIVABLE_MERCARI,
                 IntOf(mercari_transaction.product_price),
                 IntOrZero(mercari_transaction.sales_fee),
                 IntOrZero(mercari_transaction.shipping_fee))

\* ------------------------------------------------------------------------
\* convert_to_yayoi: grouping and writing.
\* ------------------------------------------------------------------------
\* Faulty variant of BatchKey: the settlement method alone.
BatchKeyMethodOnly(transaction) == transaction.method

\* The key of transactions_by_method an entry is appended under.
BatchKey(transaction) ==
    IF /\ transaction.method = OTHER_DEPOSIT
       /\ transaction.account \in {SALES_FEE_ACCOUNT, SHIPPING_ACCOUNT}
    THEN transaction.method \o <<95>> \o transaction.account
    ELSE transaction.method

\* transaction.copy() followed by del transaction_copy['取引手段']
RemoveMethod(transaction) ==
    [k \in DOMAIN transaction \ {"method"} |-> transaction[k]]

\* The inner loop over the entries of one marketplace transaction.
RECURSIVE AddToBatches(_, _, _)
AddToBatches(by_method, yayoi, i) ==
    IF i > Len(yayoi) THEN by_method
    ELSE AddToBatches(DictAppend(by_method, BatchKey(yayoi[i]), RemoveMethod(yayoi[i])),
                      yayoi, i + 1)

\* method_map.get(method, "other")
get_filename_for_method(method) ==
    CASE method = RECEIVABLE_MERCARI ->
             <<117, 114, 105, 107, 97, 107, 101, 95, 109, 101, 114, 99, 97, 114, 105>>   \* 'urikake_mercari'
      [] method = TRANSFER_MERCARI ->
             <<102, 117, 114, 105, 107, 97, 101, 95, 109, 101, 114, 99, 97, 114, 105, 95, 116, 111, 95, 121, 111, 107, 105, 110>>   \* 'furikae_mercari_to_yokin'
      [] method = OTHER_DEPOSIT ->
             <<115, 111, 110, 111, 116, 97, 95, 121, 111, 107, 105, 110>>   \* 'sonota_yokin'
      [] method = OTHER_DEPOSIT \o <<95>> \o SALES_FEE_ACCOUNT ->
             <<115, 111, 110, 111, 116, 97, 95, 121, 111, 107, 105, 110, 95, 116, 101, 115, 117, 114, 121, 111>>   \* 'sonota_yokin_tesuryo'
      [] method = OTHER_DEPOSIT \o <<95>> \o SHIPPING_ACCOUNT ->
             <<115, 111, 110, 111, 116, 97, 95, 121, 111, 107, 105, 110, 95, 115, 111, 114, 121, 111>>   \* 'sonota_yokin_soryo'
      [] method = RECEIVABLE_MERCARI_SHOP ->
             <<117, 114, 105, 107, 97, 107, 101, 95, 109, 101, 114, 99, 97, 114, 105, 95, 115, 104, 111, 112>>   \* 'urikake_mercari_shop'
      [] method = TRANSFER_MERCARI_SHOP ->
             <<102, 117, 114, 105, 107, 97, 101, 95, 109, 101, 114, 99, 97, 114, 105, 95, 115, 104, 111, 112, 95, 116, 111, 95, 121, 111, 107, 105, 110>>   \* 'furikae_mercari_shop_to_yokin'
      [] method = RECEIVABLE_YAHOO ->
             <<117, 114, 105, 107, 97, 107, 101, 95, 121, 97, 104, 111, 111>>   \* 'urikake_yahoo'
      [] method = TRANSFER_YAHOO ->
             <<102, 117, 114, 105, 107, 97, 101, 95, 121, 97, 104, 111, 111, 95, 116, 111, 95, 121, 111, 107, 105, 110>>   \* 'furikae_yahoo_to_yokin'
      [] OTHER ->
             <<111, 116, 104, 101, 114>>   \* 'other'

\* base_output_path for the input path 'mercari.csv'
BASE_OUTPUT_PATH == <<109, 101, 114, 99, 97, 114, 105, 95, 121, 97, 121, 111, 105>>   \* 'mercari_yayoi'

\* f"{base_output_path}_{method_filename}.csv"
OutputPath(method) ==
    BASE_OUTPUT_PATH \o <<95>> \o get_filename_for_method(method) \o <<46, 99, 115, 118>>

\* Of the code points the inputs use, those the shift_jis codec rejects.
IsShiftJis(c) == c \notin {160, 8201, 8202, 8239, 10084, 128512}

\* The cleaning of one field before writer.writerow.
CleanValue(value) ==
    IF value = <<>> THEN value
    ELSE LET replaced == ReplaceSpaces(value)
         IN  IF \A i \in 1..Len(replaced) : IsShiftJis(replaced[i]) THEN replaced
             ELSE [i \in 1..Len(replaced) |->
                      IF replaced[i] < 65536 THEN replaced[i] ELSE 32]

\* cleaned_transaction
CleanTransaction(transaction) ==
    [k \in DOMAIN transaction |-> CleanValue(transaction[k])]

\* The rows handed to the csv writer of one file.
CleanRows(transactions) ==
    [i \in 1..Len(transactions) |-> CleanTransaction(transactions[i])]

\* open(path, 'w'): the file is created or replaced.
WriteFileAt(files, path, file_rows) ==
    IF DictHas(files, path)
    THEN [files EXCEPT ![DictIndex(files, path)].val = file_rows]
    ELSE Append(files, [key |-> path, val |-> file_rows])

\* ------------------------------------------------------------------------
\* Input files.  A file is a bounded sequence of rows drawn from a pool of
\* rows; the strings below are the field values the pools use.
\* ------------------------------------------------------------------------
\* Longest file over each pool.
MaxRows == 4

MaxClassifyRows == 3

MaxIdRows == 3

MaxCheckRows == 3

DateSale0701At10 == <<50, 48, 50, 53, 47, 48, 55, 47, 48, 49, 32, 49, 48, 58, 48, 48, 32, 22770, 19978>>   \* "2025/07/01 10:00 売上"
DateSale0701At09 == <<50, 48, 50, 53, 47, 48, 55, 47, 48, 49, 32, 48, 57, 58, 48, 48, 32, 22770, 19978>>   \* "2025/07/01 09:00 売上"
DateSale0702 == <<50, 48, 50, 53, 47, 48, 55, 47, 48, 50, 32, 22770, 19978>>   \* "2025/07/02 売上"
DateSaleNoPrefix == <<22770, 19978, 32, 50, 48, 50, 53, 47, 48, 55, 47, 48, 49>>   \* "売上 2025/07/01"
DateTransfer0701 == <<50, 48, 50, 53, 47, 48, 55, 47, 48, 49, 32, 25391, 26367>>   \* "2025/07/01 振替"
CatTransferCompound == <<25391, 26367, 47, 31934, 31639>>   \* "振替/精算"
DescMercariId == <<109, 49, 50, 51, 52, 53, 54, 55, 56>>   \* "m12345678"
Amt1000 == <<49, 48, 48, 48>>   \* "1000"
Amt1000Comma == <<49, 44, 48, 48, 48>>   \* "1,000"
Amt500 == <<53, 48, 48>>   \* "500"
Amt0500 == <<48, 53, 48, 48>>   \* "0500"
AmtNotInt == <<97, 98, 99>>   \* "abc"
TypeLabel == <<21454, 20837>>   \* "収入"
Counterparty == <<12513, 12523, 12459, 12522>>   \* "メルカリ"
Method == <<29694, 37329>>   \* "現金"
DateSale0701 == <<50, 48, 50, 53, 47, 48, 55, 47, 48, 49, 32, 22770, 19978>>   \* "2025/07/01 売上"
DateNoMarker == <<50, 48, 50, 53, 47, 48, 55, 47, 48, 49>>   \* "2025/07/01"
CatSaleUntrimmed == <<22770, 19978, 32>>   \* "売上 "
CatSaleLonger == <<22770, 19978, 39640>>   \* "売上高"
NoNotDigits == <<120, 49>>   \* "x1"
DescOrderThenMercari == <<111, 114, 100, 101, 114, 95, 65, 66, 49, 50, 51, 32, 112, 108, 117, 115, 32, 105, 100, 32, 109, 57, 57, 57, 57, 57, 57, 57, 57>>   \* "order_AB123 plus id m99999999"
DescZThenMercari == <<122, 49, 50, 51, 52, 53, 54, 55, 56, 32, 109, 49, 50, 51, 52, 53, 54, 55, 56>>   \* "z12345678 m12345678"
DescDThenZ == <<100, 49, 50, 51, 52, 53, 54, 55, 56, 32, 122, 56, 55, 54, 53, 52, 51, 50, 49>>   \* "d12345678 z87654321"
DescDigitsThenD == <<49, 50, 51, 52, 53, 54, 55, 56, 57, 32, 100, 49, 50, 51, 52, 53, 54, 55, 56>>   \* "123456789 d12345678"
DescDigitsOnly == <<110, 111, 32, 49, 50, 51, 52, 53, 54, 55, 56, 57>>   \* "no 123456789"
DescDigitsInWord == <<120, 49, 50, 51, 52, 53, 54, 55, 56, 57, 48>>   \* "x1234567890"
DescTwoMercari == <<109, 49, 49, 49, 49, 49, 49, 49, 49, 32, 109, 50, 50, 50, 50, 50, 50, 50, 50>>   \* "m11111111 m22222222"
DescOrderAndShortMercari == <<111, 114, 100, 101, 114, 95, 120, 49, 32, 109, 49, 50, 51, 52, 53, 54, 55, 32, 122, 49, 49, 49, 49, 49, 49, 49, 49>>   \* "order_x1 m1234567 z11111111"
DescOrderBare == <<111, 114, 100, 101, 114, 95>>   \* "order_"
IdOrderAB123 == <<111, 114, 100, 101, 114, 95, 65, 66, 49, 50, 51>>   \* "order_AB123"
IdMercari99999999 == <<109, 57, 57, 57, 57, 57, 57, 57, 57>>   \* "m99999999"
DateExpense0701 == <<50, 48, 50, 53, 47, 48, 55, 47, 48, 49, 32, 32076, 36027>>   \* "2025/07/01 経費"
DateSaleExpense0701 == <<50, 48, 50, 53, 47, 48, 55, 47, 48, 49, 32, 22770, 19978, 32076, 36027>>   \* "2025/07/01 売上経費"
DateTransferExpense0701 == <<50, 48, 50, 53, 47, 48, 55, 47, 48, 49, 32, 25391, 26367, 32076, 36027>>   \* "2025/07/01 振替経費"
Amt100 == <<49, 48, 48>>   \* "100"
Amt99 == <<57, 57>>   \* "99"
Amt850 == <<56, 53, 48>>   \* "850"
Amt899 == <<56, 57, 57>>   \* "899"
Amt902 == <<57, 48, 50>>   \* "902"
Amt200 == <<50, 48, 48>>   \* "200"
Amt50 == <<53, 48>>   \* "50"
Amt300 == <<51, 48, 48>>   \* "300"

\* The field '1' .. '9'.
NoStr(n) == <<48 + n>>

Row(no, date, category, description, amount) ==
    <<NoStr(no), date, TypeLabel, category, description, Counterparty, Method, amount>>

\* Files of at most max rows over a pool.
FilesOf(pool, max) == UNION {[1..n -> pool] : n \in 0..max}

\* Rows for the Matcher: sales and transfers on shared and distinct keys, a
\* sale whose amount is no integer and a sale whose date has no date prefix.
PoolMatch ==
    { Row(1, DateSale0701At10, SALE, DescMercariId, Amt1000),
      Row(2, DateSale0701At09, SALE, DescMercariId, Amt1000Comma),
      Row(3, DateTransfer0701, CatTransferCompound, DescMercariId, Amt1000),
      Row(4, DateSale0702, SALE, EMPTY_STR, AmtNotInt),
      Row(5, DateSaleNoPrefix, SALE, EMPTY_STR, Amt1000),
      Row(6, DateSale0701At10, SALE, EMPTY_STR, Amt500),
      Row(7, DateTransfer0701, TRANSFER, EMPTY_STR, Amt0500) }

\* Rows for the Classifier: each rule with one of its two tests failing, a
\* category that needs trimming, a row whose first field is not a number and
\* a row of 7 fields.
PoolClassify ==
    { Row(1, DateSale0701, SALE, DescMercariId, Amt1000),
      Row(2, DateSale0701, CatSaleUntrimmed, DescMercariId, Amt1000),
      Row(3, DateSale0701, CatSaleLonger, DescMercariId, Amt1000),
      Row(4, DateNoMarker, SALE, DescMercariId, Amt1000),
      Row(5, DateTransfer0701, CatTransferCompound, DescMercariId, Amt1000),
      Row(6, DateTransfer0701, SALE, DescMercariId, Amt1000),
      Row(7, DateSale0701, TRANSFER, DescMercariId, Amt1000),
      <<NoNotDigits, DateSale0701, TypeLabel, SALE, DescMercariId, Counterparty,
        Method, Amt1000>>,
      <<NoStr(9), DateSale0701, TypeLabel, SALE, DescMercariId, Counterparty,
        Method>> }

\* Rows for the Identifier Extractor: descriptions in which patterns of
\* several priorities match at different places, in which one pattern matches
\* twice, and in which none matches.
PoolIds ==
    { Row(1, DateSale0701, SALE, DescOrderThenMercari, Amt1000),
      Row(2, DateSale0701, SALE, DescZThenMercari, Amt1000),
      Row(3, DateTransfer0701, TRANSFER, DescDThenZ, Amt1000),
      Row(4, DateSale0701, SALE, DescDigitsThenD, Amt1000),
      Row(5, DateSale0701, SALE, DescDigitsOnly, Amt1000),
      Row(6, DateSale0701, SALE, DescDigitsInWord, Amt1000),
      Row(8, DateSale0701, SALE, DescTwoMercari, Amt1000),
      Row(9, DateSale0701, SALE, DescOrderAndShortMercari, Amt1000),
      Row(7, DateSale0701, SALE, DescOrderBare, Amt1000) }

\* Rows for the Consistency Checker, all but one on the identifier m12345678:
\* a sale, expenses and transfers whose sums differ by 0, 1, 2 and 50, records
\* whose date field holds the expense marker next to another marker, an
\* amount that is no integer, and a category that only contains the sale marker.
PoolCheck ==
    { Row(1, DateSale0701, SALE, DescMercariId, Amt1000),
      Row(2, DateExpense0701, EXPENSE, DescMercariId, Amt100),
      Row(3, DateExpense0701, EXPENSE, DescMercariId, Amt99),
      Row(4, DateTransfer0701, TRANSFER, DescMercariId, Amt850),
      Row(5, DateTransfer0701, TRANSFER, DescMercariId, Amt899),
      Row(6, DateTransfer0701, CatTransferCompound, DescMercariId, Amt902),
      Row(7, DateSaleExpense0701, SALE, DescMercariId, Amt200),
      Row(8, DateTransferExpense0701, TRANSFER, DescMercariId, Amt50),
      Row(9, DateSale0701, SALE, DescMercariId, AmtNotInt),
      Row(1, DateSale0701, SALE, EMPTY_STR, Amt1000),
      Row(2, DateSale0701, CatSaleLonger, DescMercariId, Amt300) }

\* ------------------------------------------------------------------------
\* State.
\* ------------------------------------------------------------------------
VARIABLES
    rows,                     \* the rows csv.reader yields
    pc,                       \* the loop the run is in
    line_count,               \* rows read so far
    idx,                      \* items done in the current loop over a dict
    all_entries,
    sales_entries,
    transfer_entries,
    sales_by_date_amount,
    transfer_by_date_amount,
    unmatched_sales,
    matched_count,
    transactions_by_id,
    sales_total,              \* the three sums of the group checked last
    expense_total,
    transfer_total,
    inconsistencies,
    output,                   \* the lines printed so far
    conv_pc,                  \* the step convert_to_yayoi is at
    mercari_transactions,     \* the transactions parse_mercari_csv returned
    is_shop,                  \* self.is_shop
    transaction_index,        \* transactions convert_to_yayoi has handled
    yayoi_transactions,       \* the entries made from the last of them
    transactions_by_method,
    output_files,
    written                   \* the rows handed to each file's csv writer

converter_vars ==
    << conv_pc, mercari_transactions, is_shop, transaction_index,
       yayoi_transactions, transactions_by_method, output_files, written >>

vars ==
    << rows, pc, line_count, idx, all_entries, sales_entries, transfer_entries,
       sales_by_date_amount, transfer_by_date_amount, unmatched_sales,
       matched_count, transactions_by_id, sales_total, expense_total,
       transfer_total, inconsistencies, output, converter_vars >>

\* The converter before it is started.
ConverterIdle ==
    /\ conv_pc = "idle"
    /\ mercari_transactions = <<>>
    /\ is_shop = FALSE
    /\ transaction_index = 0
    /\ yayoi_transactions = <<>>
    /\ transactions_by_method = <<>>
    /\ output_files = <<>>
    /\ written = <<>>

\* The three sums are unbound until the first eligible group is checked; 0
\* stands for unbound.
InitOn(files) ==
    /\ rows \in files
    /\ pc = "read"
    /\ line_count = 0
    /\ idx = 0
    /\ all_entries = <<>>
    /\ sales_entries = <<>>
    /\ transfer_entries = <<>>
    /\ sales_by_date_amount = <<>>
    /\ transfer_by_date_amount = <<>>
    /\ unmatched_sales = <<>>
    /\ matched_count = 0
    /\ transactions_by_id = <<>>
    /\ sales_total = 0
    /\ expense_total = 0
    /\ transfer_total = 0
    /\ inconsistencies = <<>>
    /\ output = <<>>
    /\ ConverterIdle

InitWith(pool, max) == InitOn(FilesOf(pool, max))

Init == InitWith(PoolMatch, MaxRows)

\* ------------------------------------------------------------------------
\* Steps of analyze_transactions.
\* ------------------------------------------------------------------------
\* One iteration of `for row in reader`.
ReadRow ==
    /\ pc = "read"
    /\ line_count < Len(rows)
    /\ LET row == rows[line_count + 1]
           entry == MakeEntry(row, line_count + 1)
           class == ClassifyRow(row)
       IN  /\ line_count' = line_count + 1
           /\ IF IsCandidate(row)
              THEN /\ all_entries' = Append(all_entries, entry)
                   /\ sales_entries' =
                        IF class = "sale" THEN Append(sales_entries, entry)
                        ELSE sales_entries
                   /\ transfer_entries' =
                        IF class = "transfer" THEN Append(transfer_entries, entry)
                        ELSE transfer_entries
              ELSE UNCHANGED <<all_entries, sales_entries, transfer_entries>>
    /\ UNCHANGED << converter_vars, rows, pc, idx, sales_by_date_amount,
                    transfer_by_date_amount,
                    unmatched_sales, matched_count, transactions_by_id,
                    sales_total, expense_total, transfer_total, inconsistencies,
                    output >>

\* End of the file: the counts are printed, then the two grouping loops,
\* unmatched_sales = [] and matched_count = 0.
GroupEntries ==
    /\ pc = "read"
    /\ line_count = Len(rows)
    /\ output' = CountLines(line_count, all_entries, sales_entries, transfer_entries)
    /\ sales_by_date_amount' = GroupByDateAmount(sales_entries)
    /\ transfer_by_date_amount' = GroupByDateAmount(transfer_entries)
    /\ unmatched_sales' = <<>>
    /\ matched_count' = 0
    /\ pc' = "match"
    /\ idx' = 0
    /\ UNCHANGED << converter_vars, rows, line_count, all_entries,
                    sales_entries, transfer_entries,
                    transactions_by_id, sales_total, expense_total, transfer_total,
                    inconsistencies >>

\* One iteration of `for key, sales in sales_by_date_amount.items()`.
MatchKey ==
    /\ pc = "match"
    /\ idx < Len(sales_by_date_amount)
    /\ LET key == sales_by_date_amount[idx + 1].key
           sales == sales_by_date_amount[idx + 1].val
           transfers == DictGet(transfer_by_date_amount, key)
       IN  /\ unmatched_sales' = unmatched_sales \o Surplus(sales, transfers)
           /\ matched_count' = matched_count + MatchedPairs(sales, transfers)
    /\ idx' = idx + 1
    /\ UNCHANGED << converter_vars, rows, pc, line_count, all_entries, sales_entries,
                    transfer_entries, sales_by_date_amount,
                    transfer_by_date_amount, transactions_by_id, sales_total,
                    expense_total, transfer_total, inconsistencies, output >>

\* After the loop over the keys: the two counts are printed and
\* unmatched_sales is sorted.
SortUnmatched ==
    /\ pc = "match"
    /\ idx = Len(sales_by_date_amount)
    /\ output' = output \o MatchedLines(matched_count, unmatched_sales)
    /\ unmatched_sales' = SortUnmatchedSales(unmatched_sales)
    /\ pc' = "list"
    /\ idx' = 0
    /\ UNCHANGED << converter_vars, rows, line_count, all_entries,
                    sales_entries, transfer_entries,
                    sales_by_date_amount, transfer_by_date_amount, matched_count,
                    transactions_by_id, sales_total, expense_total, transfer_total,
                    inconsistencies >>

\* The listing of the unmatched sales under their dates.  An exception
\* leaves analyze_transactions; nothing catches it.
ListUnmatched ==
    /\ pc = "list"
    /\ LET st == Listing(unmatched_sales)
       IN  /\ output' = output \o st.out
           /\ pc' = IF st.raised THEN "raised" ELSE "patterns"
    /\ UNCHANGED << converter_vars, rows, line_count, idx, all_entries,
                    sales_entries, transfer_entries, sales_by_date_amount,
                    transfer_by_date_amount, unmatched_sales, matched_count,
                    transactions_by_id, sales_total, expense_total,
                    transfer_total, inconsistencies >>

\* The pattern analysis: per counterparty, the amount statistics, per month.
AnalyzePatterns ==
    /\ pc = "patterns"
    /\ LET st == Patterns(unmatched_sales)
       IN  /\ output' = output \o st.out
           /\ pc' = IF st.raised THEN "raised" ELSE "ids"
    /\ UNCHANGED << converter_vars, rows, line_count, idx, all_entries,
                    sales_entries, transfer_entries, sales_by_date_amount,
                    transfer_by_date_amount, unmatched_sales, matched_count,
                    transactions_by_id, sales_total, expense_total,
                    transfer_total, inconsistencies >>

\* The loop over all_entries that fills transactions_by_id, then
\* inconsistencies = [].
GroupById ==
    /\ pc = "ids"
    /\ transactions_by_id' = GroupByTransactionId(all_entries)
    /\ inconsistencies' = <<>>
    /\ pc' = "check"
    /\ idx' = 0
    /\ UNCHANGED << converter_vars, rows, line_count, all_entries,
                    sales_entries, transfer_entries,
                    sales_by_date_amount, transfer_by_date_amount, unmatched_sales,
                    matched_count, sales_total, expense_total, transfer_total,
                    output >>

\* One iteration of `for trans_id, entries in transactions_by_id.items()`.
CheckGroup ==
    /\ pc = "check"
    /\ idx < Len(transactions_by_id)
    /\ LET trans_id == transactions_by_id[idx + 1].key
           entries == transactions_by_id[idx + 1].val
           t == GroupTotals(entries)
       IN  IF IsEligible(entries)
           THEN /\ sales_total' = t.sales
                /\ expense_total' = t.expense
                /\ transfer_total' = t.transfer
                /\ inconsistencies' =
                     IF IsEvaluated(t) /\ ExceedsTolerance(t)
                     THEN Append(inconsistencies,
                                 MakeInconsistency(trans_id, entries, t))
                     ELSE inconsistencies
           ELSE UNCHANGED <<sales_total, expense_total, transfer_total,
                            inconsistencies>>
    /\ idx' = idx + 1
    /\ UNCHANGED << converter_vars, rows, pc, line_count, all_entries, sales_entries,
                    transfer_entries, sales_by_date_amount,
                    transfer_by_date_amount, unmatched_sales, matched_count,
                    transactions_by_id, output >>

\* After the loop over the groups: the sort of inconsistencies.
SortInconsistencies ==
    /\ pc = "check"
    /\ idx = Len(transactions_by_id)
    /\ inconsistencies' = SortByDiscrepancy(inconsistencies)
    /\ pc' = "report"
    /\ idx' = 0
    /\ UNCHANGED << converter_vars, rows, line_count, all_entries, sales_entries,
                    transfer_entries, sales_by_date_amount,
                    transfer_by_date_amount, unmatched_sales, matched_count,
                    transactions_by_id, sales_total, expense_total,
                    transfer_total, output >>

\* The report of the inconsistencies, or the line saying there are none.
ReportInconsistencies ==
    /\ pc = "report"
    /\ output' = output \o InconsistencyLines(inconsistencies)
    /\ pc' = "summary"
    /\ UNCHANGED << converter_vars, rows, line_count, idx, all_entries,
                    sales_entries, transfer_entries, sales_by_date_amount,
                    transfer_by_date_amount, unmatched_sales, matched_count,
                    transactions_by_id, sales_total, expense_total,
                    transfer_total, inconsistencies >>

\* The final summary, after which analyze_transactions returns.
Summarize ==
    /\ pc = "summary"
    /\ LET st == SummaryLines(sales_entries, transfer_entries, matched_count,
                              unmatched_sales, inconsistencies)
       IN  /\ output' = output \o st.out
           /\ pc' = IF st.raised THEN "raised" ELSE "done"
    /\ UNCHANGED << converter_vars, rows, line_count, idx, all_entries,
                    sales_entries, transfer_entries, sales_by_date_amount,
                    transfer_by_date_amount, unmatched_sales, matched_count,
                    transactions_by_id, sales_total, expense_total,
                    transfer_total, inconsistencies >>

Next ==
    \/ ReadRow
    \/ GroupEntries
    \/ MatchKey
    \/ SortUnmatched
    \/ ListUnmatched
    \/ AnalyzePatterns
    \/ GroupById
    \/ CheckGroup
    \/ SortInconsistencies
    \/ ReportInconsistencies
    \/ Summarize

Spec == Init /\ [][Next]_vars

InitClassify == InitWith(PoolClassify, MaxClassifyRows)

SpecClassify == InitClassify /\ [][Next]_vars

InitIds == InitWith(PoolIds, MaxIdRows)

SpecIds == InitIds /\ [][Next]_vars

InitCheck == InitWith(PoolCheck, MaxCheckRows)

SpecCheck == InitCheck /\ [][Next]_vars

\* Rows for the handling of malformed records, all on the identifier
\* m12345678: a sale and a transfer that are well formed, one of each whose
\* amount is no integer, and one of each whose date has no date prefix.
MaxErrorRows == 3

DateTransferNoPrefix == <<25391, 26367, 32, 50, 48, 50, 53, 47, 48, 55, 47, 48, 49>>   \* "振替 2025/07/01"

PoolErrors ==
    { Row(1, DateSale0701, SALE, DescMercariId, Amt1000),
      Row(2, DateSale0701, SALE, DescMercariId, AmtNotInt),
      Row(3, DateSaleNoPrefix, SALE, DescMercariId, Amt500),
      Row(4, DateTransfer0701, TRANSFER, DescMercariId, Amt850),
      Row(5, DateTransfer0701, TRANSFER, DescMercariId, AmtNotInt),
      Row(6, DateTransferNoPrefix, TRANSFER, DescMercariId, Amt300) }

InitErrors == InitWith(PoolErrors, MaxErrorRows)

SpecErrors == InitErrors /\ [][Next]_vars

\* Rows for the reordering of a file: two sales on one key whose date
\* strings differ, a transfer on that key, and two sales on another key, one
\* of them with the sequence number of a sale on the first key; every row
\* names the same marketplace identifier.
MaxReorderRows == 3

PoolReorder ==
    { Row(1, DateSale0701At10, SALE, DescMercariId, Amt1000),
      Row(2, DateSale0701At09, SALE, DescMercariId, Amt1000Comma),
      Row(3, DateTransfer0701, TRANSFER, DescMercariId, Amt1000),
      Row(1, DateSale0701At10, SALE, DescMercariId, Amt500),
      Row(4, DateSale0701At10, SALE, DescMercariId, Amt500) }

InitReorder == InitWith(PoolReorder, MaxReorderRows)

SpecReorder == InitReorder /\ [][Next]_vars

\* Files for the inconsistency report: up to MaxGroups groups of a sale of
\* 1000, an expense of 100 and a transfer, each group on its own identifier.
\* The transfer of a group is drawn from four amounts, which make the
\* discrepancy -50, +2, -2 or -1; the choice repeats every third group.
MaxGroups == 11

Amt898 == <<56, 57, 56>>   \* "898"

TransferAmounts == {Amt850, Amt902, Amt898, Amt899}

\* "m00000001", "m00000002", ...
GroupDescription(k) == <<109, 48, 48, 48, 48, 48, 48>> \o <<48 + (k \div 10), 48 + (k % 10)>>

NumberedRow(no, date, category, description, amount) ==
    <<NatToStr(no), date, TypeLabel, category, description, Counterparty, Method, amount>>

GroupRows(k, transfer) ==
    << NumberedRow(3 * k - 2, DateSale0701, SALE, GroupDescription(k), Amt1000),
       NumberedRow(3 * k - 1, DateExpense0701, EXPENSE, GroupDescription(k), Amt100),
       NumberedRow(3 * k, DateTransfer0701, TRANSFER, GroupDescription(k), transfer) >>

RECURSIVE ReportFile(_, _)
ReportFile(n, p) ==
    IF n = 0 THEN <<>>
    ELSE ReportFile(n - 1, p) \o GroupRows(n, p[((n - 1) % 3) + 1])

ReportFiles == {ReportFile(n, p) : n \in 0..MaxGroups, p \in [1..3 -> TransferAmounts]}

InitReport == InitOn(ReportFiles)

SpecReport == InitReport /\ [][Next]_vars

\* Files for the unmatched listing: sales of 1000 without a transfer, a few
\* dated 2025/07/02 first, then those dated 2025/07/01, up to MaxUnmatched
\* rows in all.
MaxUnmatched == 32

MaxSecondDate == 2

RECURSIVE SaleRows(_, _, _)
SaleRows(first, n, date) ==
    IF n = 0 THEN <<>>
    ELSE SaleRows(first, n - 1, date)
         \o <<NumberedRow(first + n - 1, date, SALE, DescMercariId, Amt1000)>>

ListingFiles ==
    UNION { {SaleRows(1, later, DateSale0702)
               \o SaleRows(later + 1, total - later, DateSale0701) :
                 total \in later..MaxUnmatched} :
            later \in 0..MaxSecondDate }

InitListing == InitOn(ListingFiles)

SpecListing == InitListing /\ [][Next]_vars

\* ------------------------------------------------------------------------
\* Steps of convert_to_yayoi.  The analyzer is not running.
\* ------------------------------------------------------------------------
AnalyzerIdle ==
    /\ rows = <<>>
    /\ pc = "idle"
    /\ line_count = 0
    /\ idx = 0
    /\ all_entries = <<>>
    /\ sales_entries = <<>>
    /\ transfer_entries = <<>>
    /\ sales_by_date_amount = <<>>
    /\ transfer_by_date_amount = <<>>
    /\ unmatched_sales = <<>>
    /\ matched_count = 0
    /\ transactions_by_id = <<>>
    /\ sales_total = 0
    /\ expense_total = 0
    /\ transfer_total = 0
    /\ inconsistencies = <<>>
    /\ output = <<>>

analyzer_vars ==
    << rows, pc, line_count, idx, all_entries, sales_entries, transfer_entries,
       sales_by_date_amount, transfer_by_date_amount, unmatched_sales,
       matched_count, transactions_by_id, sales_total, expense_total,
       transfer_total, inconsistencies, output >>

\* The state after the parse: transactions_by_method = {}.
InitConverter(inputs) ==
    /\ AnalyzerIdle
    /\ conv_pc = "convert"
    /\ mercari_transactions \in inputs
    /\ is_shop \in BOOLEAN
    /\ transaction_index = 0
    /\ yayoi_transactions = <<>>
    /\ transactions_by_method = <<>>
    /\ output_files = <<>>
    /\ written = <<>>

\* One iteration of `for mercari_transaction in mercari_transactions`.
ConvertTransaction ==
    /\ conv_pc = "convert"
    /\ transaction_index < Len(mercari_transactions)
    /\ yayoi_transactions' = create_yayoi_transactions(
                                 mercari_transactions[transaction_index + 1], is_shop)
    /\ transactions_by_method' =
           AddToBatches(transactions_by_method, yayoi_transactions', 1)
    /\ transaction_index' = transaction_index + 1
    /\ UNCHANGED << analyzer_vars, conv_pc, mercari_transactions, is_shop,
                    output_files, written >>

\* After the loop: output_files = [].
StartWriting ==
    /\ conv_pc = "convert"
    /\ transaction_index = Len(mercari_transactions)
    /\ output_files' = <<>>
    /\ conv_pc' = "write"
    /\ UNCHANGED << analyzer_vars, mercari_transactions, is_shop, transaction_index,
                    yayoi_transactions, transactions_by_method, written >>

\* One iteration of `for method, transactions in
\* transactions_by_method.items()`; the position of the loop is the number
\* of paths appended to output_files.
WriteBatch ==
    /\ conv_pc = "write"
    /\ Len(output_files) < Len(transactions_by_method)
    /\ LET method == transactions_by_method[Len(output_files) + 1].key
           transactions == transactions_by_method[Len(output_files) + 1].val
           output_path == OutputPath(method)
       IN  /\ written' = WriteFileAt(written, output_path, CleanRows(transactions))
           /\ output_files' = Append(output_files, output_path)
    /\ UNCHANGED << analyzer_vars, conv_pc, mercari_transactions, is_shop,
                    transaction_index, yayoi_transactions, transactions_by_method >>

\* `return output_files`
FinishConversion ==
    /\ conv_pc = "write"
    /\ Len(output_files) = Len(transactions_by_method)
    /\ conv_pc' = "done"
    /\ UNCHANGED << analyzer_vars, mercari_transactions, is_shop, transaction_index,
                    yayoi_transactions, transactions_by_method, output_files,
                    written >>

NextConvert ==
    \/ ConvertTransaction
    \/ StartWriting
    \/ WriteBatch
    \/ FinishConversion

\* Marketplace transactions for the grouping into batches: one with both
\* fees, one with a sales fee only and a product name that holds a narrow
\* no-break space and an emoji, one whose price is no integer, and one with
\* a shipping fee only.
MaxTransactions == 3

DateShopFormat == <<50, 48, 50, 53, 47, 55, 47, 49, 32, 49, 50, 58, 53, 51, 58, 52, 49>>   \* "2025/7/1 12:53:41"
DateRegularFormat == <<50, 48, 50, 53, 45, 48, 55, 45, 50, 51, 32, 48, 54, 58, 51, 51, 58, 48, 56>>   \* "2025-07-23 06:33:08"
DateSlashOnly == <<50, 48, 50, 53, 47, 48, 55, 47, 50, 51>>   \* "2025/07/23"
ProductId1 == <<109, 49, 49, 49, 49, 49, 49, 49, 49>>   \* "m11111111"
ProductId2 == <<109, 50, 50, 50, 50, 50, 50, 50, 50>>   \* "m22222222"
NameBook == <<66, 111, 111, 107>>   \* "Book"
NamePenEmoji == <<80, 101, 110, 8239, 128512>>   \* "Pen\u202f\U0001F600"
Amt1000WithComma == <<49, 44, 48, 48, 48>>   \* "1,000"
Amt0 == <<48>>   \* "0"
AmtMinus5 == <<45, 53>>   \* "-5"
Amt120 == <<49, 50, 48>>   \* "120"
Amt70Spaces == <<32, 55, 48, 32>>   \* " 70 "

Transaction(date, product_id, product_name, product_price, sales_fee, shipping_fee) ==
    [ date |-> date, product_id |-> product_id, product_name |-> product_name,
      product_price |-> product_price, sales_fee |-> sales_fee,
      shipping_fee |-> shipping_fee, sales_profit |-> Amt0 ]

PoolConvert ==
    { Transaction(DateShopFormat, ProductId1, NameBook, Amt1000, Amt100, Amt200),
      Transaction(DateRegularFormat, ProductId2, NamePenEmoji, Amt500, Amt50, Amt0),
      Transaction(DateRegularFormat, ProductId1, NameBook, Amt1000WithComma, Amt100, Amt200),
      Transaction(DateSlashOnly, ProductId2, NameBook, Amt300, AmtNotInt, Amt120) }

InitConvert == InitConverter(UNION {[1..n -> PoolConvert] : n \in 0..MaxTransactions})

SpecConvert == InitConvert /\ [][NextConvert]_vars

\* Marketplace transactions for the fan-out of one transaction: every
\* combination of a date, a product name, a price, a sales fee and a
\* shipping fee, the amounts being integers above, at and below 0, strings
\* int() rejects, None and a missing key.
DateValues == {DateShopFormat, DateRegularFormat, DateSlashOnly}

NameValues == {NameBook, NamePenEmoji}

PriceValues == {Amt1000, Amt0, Amt1000WithComma, EMPTY_STR, NONE, ABSENT}

FeeValues == {Amt100, Amt70Spaces, Amt0, AmtMinus5, AmtNotInt, NONE, ABSENT}

PoolFanOut ==
    { Transaction(date, ProductId1, name, price, sales_fee, shipping_fee) :
        date \in DateValues, name \in NameValues, price \in PriceValues,
        sales_fee \in FeeValues, shipping_fee \in FeeValues }

InitFanOut == InitConverter({<<t>> : t \in PoolFanOut})

SpecFanOut == InitFanOut /\ [][NextConvert]_vars

\* ------------------------------------------------------------------------
\* Properties of the Matcher.
\* ------------------------------------------------------------------------
\* The loop over the keys has finished and unmatched_sales is sorted.
MatcherDone ==
    pc \in {"list", "patterns", "ids", "check", "report", "summary", "done", "raised"}

SeqToSet(q) == {q[i] : i \in 1..Len(q)}

\* The (date_only, amount) pair of an entry that has one.
HasPair(e) == HasDatePrefix(e.date) /\ IsIntLiteral(e.amount)

PairOf(e) == <<DateOnly(e.date), IntValue(e.amount)>>

\* The entries of a list on the pair k, in file order.
EntriesOn(entries, k) == SelectSeq(entries, LAMBDA e : HasPair(e) /\ PairOf(e) = k)

SalePairs == {PairOf(e) : e \in {x \in SeqToSet(sales_entries) : HasPair(x)}}

Min(a, b) == IF a <= b THEN a ELSE b

RECURSIVE SumOfMatched(_)
SumOfMatched(keys) ==
    IF keys = {} THEN 0
    ELSE LET k == CHOOSE x \in keys : TRUE
         IN  Min(Len(EntriesOn(sales_entries, k)), Len(EntriesOn(transfer_entries, k)))
             + SumOfMatched(keys \ {k})

\* C1 as stated: once the Matcher has run, matched_count + len(unmatched_sales)
\* is the number of Sale records whose date field starts with YYYY/MM/DD.
C1_CountsDatePatternSales ==
    MatcherDone =>
        matched_count + Len(unmatched_sales)
            = Cardinality({i \in 1..Len(sales_entries) :
                             HasDatePrefix(sales_entries[i].date)})

\* C1, amended: once the Matcher has run, matched_count + len(unmatched_sales)
\* is the number of Sale records whose date field starts with YYYY/MM/DD and
\* whose amount is an integer string.
C1_CountsKeyedSales ==
    MatcherDone =>
        matched_count + Len(unmatched_sales)
            = Cardinality({i \in 1..Len(sales_entries) : HasPair(sales_entries[i])})

\* A run with a matched pair, an unmatched sale, and a sale dropped for its amount.
C1_Witness ==
    /\ MatcherDone
    /\ matched_count >= 1
    /\ Len(unmatched_sales) >= 1
    /\ \E i \in 1..Len(sales_entries) :
          HasDatePrefix(sales_entries[i].date) /\ ~IsIntLiteral(sales_entries[i].amount)

\* C2: for every key (date_only, amount) of the sales mapping, with S and T the
\* sales and transfers on it in file order, min(|S|,|T|) pairs are counted and
\* exactly S[|T|:] is unmatched; every unmatched record is a Sale.
C2_PositionalSurplus ==
    MatcherDone =>
        /\ matched_count = SumOfMatched(SalePairs)
        /\ SeqToSet(unmatched_sales) \subseteq SeqToSet(sales_entries)
        /\ \A k \in SalePairs :
              LET S == EntriesOn(sales_entries, k)
                  T == EntriesOn(transfer_entries, k)
                  U == EntriesOn(unmatched_sales, k)
                  surplus == IF Len(S) > Len(T) THEN SubSeq(S, Len(T) + 1, Len(S))
                             ELSE <<>>
              IN  SeqToSet(U) = SeqToSet(surplus) /\ Len(U) = Len(surplus)
        /\ \A i \in 1..Len(unmatched_sales) :
              /\ HasPair(unmatched_sales[i])
              /\ PairOf(unmatched_sales[i]) \in SalePairs

\* Two sales and one transfer on one key: the later sale is the unmatched one.
C2_Witness ==
    /\ MatcherDone
    /\ matched_count = 1
    /\ Len(unmatched_sales) = 1
    /\ \E k \in SalePairs :
          LET S == EntriesOn(sales_entries, k)
          IN  /\ Len(S) = 2
              /\ Len(EntriesOn(transfer_entries, k)) = 1
              /\ unmatched_sales[1] = S[2]
              /\ S[1].line < S[2].line

\* C3 as stated: unmatched_sales is sorted ascending by (date_only, sequence),
\* so two unmatched sales of one calendar date are in sequence order.
C3_SortedByDateOnlyAndNo ==
    MatcherDone =>
        \A i, j \in 1..Len(unmatched_sales) :
            i < j =>
                LET a == unmatched_sales[i]
                    b == unmatched_sales[j]
                IN  \/ StrLess(DateOnly(a.date), DateOnly(b.date))
                    \/ DateOnly(a.date) = DateOnly(b.date) /\ a.no <= b.no

\* C3, amended: unmatched_sales is sorted ascending by (date string, sequence),
\* the date string being the whole date-time field: two unmatched sales with
\* the same date-time string are in sequence order.
C3_SortedByDateStringAndNo ==
    MatcherDone =>
        \A i, j \in 1..Len(unmatched_sales) :
            i < j =>
                LET a == unmatched_sales[i]
                    b == unmatched_sales[j]
                IN  \/ StrLess(a.date, b.date)
                    \/ a.date = b.date /\ a.no <= b.no

\* Two unmatched sales with the same date-time string that the sort swapped.
C3_Witness ==
    /\ MatcherDone
    /\ Len(unmatched_sales) = 2
    /\ unmatched_sales[1].date = unmatched_sales[2].date
    /\ unmatched_sales[1].no < unmatched_sales[2].no
    /\ unmatched_sales[1].line > unmatched_sales[2].line

\* ------------------------------------------------------------------------
\* Properties of the Classifier.
\* ------------------------------------------------------------------------
\* The lines whose entry is in a list.
LinesOf(entries) == {entries[i].line : i \in 1..Len(entries)}

\* The rows read so far.
LinesRead == 1..line_count

\* The Sale rule and the Transfer rule, on the fields of a row.
SaleRule(row) == Contains(row[2], SALE) /\ Strip(row[4]) = SALE

TransferRule(row) == Contains(row[2], TRANSFER) /\ Contains(row[4], TRANSFER)

\* C10: of the rows read, the sales set holds exactly the candidate records
\* that meet the Sale rule, the transfers set exactly those that meet the
\* Transfer rule, no record is in both, and every candidate record is in the
\* full record set, each once and in file order.
C10_ClassifierSets ==
    /\ LinesOf(sales_entries)
         = {l \in LinesRead : IsCandidate(rows[l]) /\ SaleRule(rows[l])}
    /\ LinesOf(transfer_entries)
         = {l \in LinesRead : IsCandidate(rows[l]) /\ TransferRule(rows[l])}
    /\ LinesOf(sales_entries) \cap LinesOf(transfer_entries) = {}
    /\ LinesOf(all_entries) = {l \in LinesRead : IsCandidate(rows[l])}
    /\ \A i, j \in 1..Len(all_entries) : i < j => all_entries[i].line < all_entries[j].line
    /\ \A i, j \in 1..Len(sales_entries) :
          i < j => sales_entries[i].line < sales_entries[j].line
    /\ \A i, j \in 1..Len(transfer_entries) :
          i < j => transfer_entries[i].line < transfer_entries[j].line

\* A file read to its end with a sale, a transfer and a candidate record in
\* neither set.
C10_Witness ==
    /\ pc = "read"
    /\ line_count = Len(rows)
    /\ Len(sales_entries) = 1
    /\ Len(transfer_entries) = 1
    /\ Len(all_entries) = 3

\* ------------------------------------------------------------------------
\* Properties of the Identifier Extractor.
\* ------------------------------------------------------------------------
\* transactions_by_id is filled.
GroupingDone == pc \in {"check", "report", "summary", "done"}

\* The loop that fills transactions_by_id has just ended; the mapping is not
\* written afterwards.
JustGrouped == pc = "check" /\ idx = 0

\* The identifiers under which an entry is grouped.
GroupsOf(e) ==
    {transactions_by_id[g].key :
        g \in {h \in 1..Len(transactions_by_id) :
                 e \in SeqToSet(transactions_by_id[h].val)}}

\* s[i..j] is a match of the pattern of priority k (1 is the highest).
AllIn(s, i, j, class) == \A n \in i..j : InClass(class, s[n])

LetterDigits(s, i, j, letter) ==
    s[i] = letter /\ j - i >= 8 /\ AllIn(s, i + 1, j, "digit")

IsMatchOf(k, s, i, j) ==
    CASE k = 1 -> LetterDigits(s, i, j, 109)
      [] k = 2 -> /\ j - i >= 6
                  /\ SubSeq(s, i, i + 5) = ORDER_PREFIX
                  /\ AllIn(s, i + 6, j, "alnum")
      [] k = 3 -> LetterDigits(s, i, j, 122)
      [] k = 4 -> LetterDigits(s, i, j, 100)
      [] k = 5 -> /\ j - i >= 8
                  /\ AllIn(s, i, j, "digit")
                  /\ i = 1 \/ ~IsWordChar(s[i - 1])
                  /\ j = Len(s) \/ ~IsWordChar(s[j + 1])

StartsOf(k, s) ==
    {i \in 1..Len(s) : \E j \in i..Len(s) : IsMatchOf(k, s, i, j)}

Priorities == 1..5

\* The first match of pattern k in s: leftmost start, longest from there.
FirstMatchOf(k, s) ==
    LET i == CHOOSE a \in StartsOf(k, s) : \A b \in StartsOf(k, s) : a <= b
        j == CHOOSE a \in i..Len(s) :
                 /\ IsMatchOf(k, s, i, a)
                 /\ \A b \in (a + 1)..Len(s) : ~IsMatchOf(k, s, i, b)
    IN  SubSeq(s, i, j)

\* The identifier the priority rule gives, as a set: empty when no pattern matches.
PriorityId(s) ==
    LET having == {k \in Priorities : StartsOf(k, s) # {}}
    IN  IF having = {} THEN {}
        ELSE {FirstMatchOf(CHOOSE k \in having : \A h \in having : k <= h, s)}

\* C4 as stated: a record described "order_AB123 plus id m99999999" is
\* grouped under order_AB123 and not under m99999999.
C4_GroupedUnderOrderId ==
    GroupingDone =>
        \A n \in 1..Len(all_entries) :
            all_entries[n].description = DescOrderThenMercari =>
                /\ IdOrderAB123 \in GroupsOf(all_entries[n])
                /\ IdMercari99999999 \notin GroupsOf(all_entries[n])

\* C4, amended: a record described "order_AB123 plus id m99999999" is
\* grouped under m99999999 and not under order_AB123.
C4_GroupedUnderMercariId ==
    GroupingDone =>
        \A n \in 1..Len(all_entries) :
            all_entries[n].description = DescOrderThenMercari =>
                GroupsOf(all_entries[n]) = {IdMercari99999999}

\* The grouping has run on a file with that description.
C4_Witness ==
    /\ GroupingDone
    /\ \E n \in 1..Len(all_entries) :
          all_entries[n].description = DescOrderThenMercari

\* C5: every record is grouped under the first match of the highest-priority
\* pattern that matches its description, wherever the matches of the other
\* patterns are, and under no identifier exactly when no pattern matches.
C5_PriorityRule ==
    JustGrouped =>
        \A n \in 1..Len(all_entries) :
            GroupsOf(all_entries[n]) = PriorityId(all_entries[n].description)

\* The grouping has run on a record in which a lower-priority pattern matches
\* first in the string, on one in which a pattern matches twice and on one
\* in which none matches.
C5_Witness ==
    /\ JustGrouped
    /\ \E n \in 1..Len(all_entries) : all_entries[n].description = DescZThenMercari
    /\ \E n \in 1..Len(all_entries) : all_entries[n].description = DescTwoMercari
    /\ \E n \in 1..Len(all_entries) :
          /\ all_entries[n].description = DescDigitsInWord
          /\ GroupsOf(all_entries[n]) = {}

\* ------------------------------------------------------------------------
\* Properties of the Consistency Checker.
\* ------------------------------------------------------------------------
\* The group the loop over transactions_by_id handled last.
GroupChecked == pc = "check" /\ idx >= 1

LastId == transactions_by_id[idx].key

LastMembers == transactions_by_id[idx].val

\* The last group was eligible, so the three sums are those of that group.
SumsOfLast == GroupChecked /\ Len(LastMembers) >= 3

IsFlagged(id) == \E n \in 1..Len(inconsistencies) : inconsistencies[n].id = id

RECURSIVE SumAmounts(_)
SumAmounts(entries) ==
    IF entries = <<>> THEN 0
    ELSE IntValue(Head(entries).amount) + SumAmounts(Tail(entries))

HasIntAmount(e) == IsIntLiteral(e.amount)

InSales(e) == e \in SeqToSet(sales_entries)

InTransfers(e) == e \in SeqToSet(transfer_entries)

HasExpenseMarker(e) == Contains(e.date, EXPENSE)

\* C6 as stated: expense_total is the sum of the integer amounts of all members
\* whose date field contains the expense marker, Sales and Transfers included.
C6_ExpenseTotalAllMarked ==
    SumsOfLast =>
        expense_total
            = SumAmounts(SelectSeq(LastMembers,
                                   LAMBDA e : HasIntAmount(e) /\ HasExpenseMarker(e)))

\* C6, amended: expense_total is the sum of the integer amounts of the members
\* whose date field contains the expense marker and that are not Sales;
\* Transfers with the marker are included.
C6_ExpenseTotalMarkedNotSale ==
    SumsOfLast =>
        expense_total
            = SumAmounts(SelectSeq(LastMembers,
                                   LAMBDA e : /\ HasIntAmount(e)
                                              /\ HasExpenseMarker(e)
                                              /\ ~InSales(e)))

\* A checked group with a Sale and a Transfer that both carry the expense marker.
C6_Witness ==
    /\ SumsOfLast
    /\ \E e \in SeqToSet(LastMembers) :
          HasIntAmount(e) /\ HasExpenseMarker(e) /\ InSales(e)
    /\ \E e \in SeqToSet(LastMembers) :
          HasIntAmount(e) /\ HasExpenseMarker(e) /\ InTransfers(e)
    /\ expense_total > 0

\* C7 as stated: a member with an integer amount is added to sales_total iff it
\* is in the sales set and to transfer_total iff it is in the transfers set.
C7_AgreesWithClassifier ==
    SumsOfLast =>
        /\ \A e \in SeqToSet(LastMembers) :
              HasIntAmount(e) =>
                  /\ CheckCategory(e) = "sales" <=> InSales(e)
                  /\ CheckCategory(e) = "transfer" <=> InTransfers(e)
        /\ sales_total
             = SumAmounts(SelectSeq(LastMembers,
                                    LAMBDA e : HasIntAmount(e) /\ InSales(e)))
        /\ transfer_total
             = SumAmounts(SelectSeq(LastMembers,
                                    LAMBDA e : HasIntAmount(e) /\ InTransfers(e)))

\* C7, amended: a member with an integer amount is added to sales_total iff it
\* is in the sales set, and to transfer_total iff it is in the transfers set
\* and its date field does not contain the expense marker.
C7_AgreesExceptMarkedTransfers ==
    SumsOfLast =>
        /\ \A e \in SeqToSet(LastMembers) :
              HasIntAmount(e) =>
                  /\ CheckCategory(e) = "sales" <=> InSales(e)
                  /\ CheckCategory(e) = "transfer"
                        <=> (InTransfers(e) /\ ~HasExpenseMarker(e))
        /\ sales_total
             = SumAmounts(SelectSeq(LastMembers,
                                    LAMBDA e : HasIntAmount(e) /\ InSales(e)))
        /\ transfer_total
             = SumAmounts(SelectSeq(LastMembers,
                                    LAMBDA e : /\ HasIntAmount(e)
                                               /\ InTransfers(e)
                                               /\ ~HasExpenseMarker(e)))

\* A checked group with a Sale, a Transfer and a Transfer that carries the
\* expense marker.
C7_Witness ==
    /\ SumsOfLast
    /\ sales_total > 0
    /\ transfer_total > 0
    /\ \E e \in SeqToSet(LastMembers) :
          HasIntAmount(e) /\ InTransfers(e) /\ HasExpenseMarker(e)

\* The group of the scenario: a sale of 1000, an expense of 100, a transfer of 850.
IsScenarioGroup(entries) ==
    /\ Len(entries) = 3
    /\ \A e \in SeqToSet(entries) : HasIntAmount(e)
    /\ \E a, b, c \in 1..3 :
          /\ {a, b, c} = 1..3
          /\ InSales(entries[a]) /\ IntValue(entries[a].amount) = 1000
          /\ HasExpenseMarker(entries[b]) /\ IntValue(entries[b].amount) = 100
          /\ ~InSales(entries[b]) /\ ~InTransfers(entries[b])
          /\ InTransfers(entries[c]) /\ IntValue(entries[c].amount) = 850
          /\ ~HasExpenseMarker(entries[c])

\* C8: a group is flagged iff it has >= 3 members, sales_total > 0,
\* transfer_total > 0 and abs(transfer_total - (sales_total - expense_total)) > 1;
\* a discrepancy of +1 or -1 is not flagged, one of +2 or -2 is, and the
\* scenario group is flagged with expected 900 and discrepancy -50.
C8_FlaggedIffBeyondTolerance ==
    GroupChecked =>
        LET discrepancy == transfer_total - (sales_total - expense_total)
            evaluated == Len(LastMembers) >= 3 /\ sales_total > 0 /\ transfer_total > 0
        IN  /\ IsFlagged(LastId) <=> (evaluated /\ Abs(discrepancy) > 1)
            /\ (evaluated /\ discrepancy \in {1, -1}) => ~IsFlagged(LastId)
            /\ (evaluated /\ discrepancy \in {2, -2}) => IsFlagged(LastId)
            /\ \A n \in 1..Len(inconsistencies) :
                  inconsistencies[n].id = LastId =>
                      /\ inconsistencies[n].expected = sales_total - expense_total
                      /\ inconsistencies[n].difference = discrepancy
            /\ IsScenarioGroup(LastMembers) =>
                  \E n \in 1..Len(inconsistencies) :
                      /\ inconsistencies[n].id = LastId
                      /\ inconsistencies[n].expected = 900
                      /\ inconsistencies[n].difference = -50

\* The scenario group has been checked.
C8_Witness == GroupChecked /\ IsScenarioGroup(LastMembers) /\ IsFlagged(LastId)

\* C9: no inconsistency is reported for a group of fewer than 3 members, nor
\* for a group whose sales_total or transfer_total is 0.
C9_NeverFlagged ==
    \A g \in 1..Len(transactions_by_id) :
        LET members == transactions_by_id[g].val
        IN  ( \/ Len(members) < 3
              \/ GroupTotals(members).sales = 0
              \/ GroupTotals(members).transfer = 0 )
            => ~IsFlagged(transactions_by_id[g].key)

\* A run that ended without a report on a group of 2 members, a sale of 1000
\* and a transfer of 850.
C9_Witness ==
    /\ pc = "done"
    /\ inconsistencies = <<>>
    /\ \E g \in 1..Len(transactions_by_id) :
          LET members == transactions_by_id[g].val
          IN  /\ Len(members) = 2
              /\ GroupTotals(members).sales = 1000
              /\ GroupTotals(members).transfer = 850

\* ------------------------------------------------------------------------
\* Properties of the handling of malformed records.
\* ------------------------------------------------------------------------
\* A record the Matcher cannot key: int() rejects its amount, or its date
\* does not start with YYYY/MM/DD.
IsMalformed(e) == ~IsIntLiteral(e.amount) \/ ~HasDatePrefix(e.date)

IsWellFormed(e) == ~IsMalformed(e)

\* The printed lines of a kind.
LinesOfKind(kind) == SelectSeq(output, LAMBDA l : l.kind = kind)

MeetsSaleRule(e) == Contains(e.date, SALE) /\ e.category = SALE

MeetsTransferRule(e) == Contains(e.date, TRANSFER) /\ Contains(e.category, TRANSFER)

\* The run is at one of the steps before the return or has returned, and a
\* loop it is in has its position within the sequence it walks: the step of
\* the loop or the step after it can be taken.
HasNextStep ==
    /\ pc \in {"read", "match", "list", "patterns", "ids", "check", "report",
               "summary", "done"}
    /\ pc = "read" => line_count <= Len(rows)
    /\ pc = "match" => idx <= Len(sales_by_date_amount)
    /\ pc = "check" => idx <= Len(transactions_by_id)

\* The run has not raised and, unless it has returned, has a next step.
RunsThrough == pc # "raised" /\ HasNextStep

\* The printed counts include the malformed records: every record that meets
\* the Sale rule is counted as a sale, every other one that meets the
\* Transfer rule as a transfer.
MalformedCounted ==
    pc \notin {"read", "raised"} =>
        LET counts == LinesOfKind("counts")[1]
        IN  /\ counts.sales = Len(SelectSeq(all_entries, MeetsSaleRule))
            /\ counts.transfers
                 = Len(SelectSeq(all_entries,
                                 LAMBDA e : ~MeetsSaleRule(e) /\ MeetsTransferRule(e)))
            /\ \A i \in 1..Len(all_entries) :
                  /\ MeetsSaleRule(all_entries[i]) => InSales(all_entries[i])
                  /\ (~MeetsSaleRule(all_entries[i]) /\ MeetsTransferRule(all_entries[i]))
                        => InTransfers(all_entries[i])

\* No malformed record is under a key of the two mappings nor in
\* unmatched_sales.
MalformedNotMatched ==
    MatcherDone =>
        /\ \A k \in 1..Len(sales_by_date_amount) :
              \A i \in 1..Len(sales_by_date_amount[k].val) :
                  IsWellFormed(sales_by_date_amount[k].val[i])
        /\ \A k \in 1..Len(transfer_by_date_amount) :
              \A i \in 1..Len(transfer_by_date_amount[k].val) :
                  IsWellFormed(transfer_by_date_amount[k].val[i])
        /\ \A i \in 1..Len(unmatched_sales) : IsWellFormed(unmatched_sales[i])

\* Every printed sum over the unmatched sales is a sum over well-formed
\* records only.
MalformedNotInUnmatchedSums ==
    pc = "done" =>
        LET wellFormed == SelectSeq(unmatched_sales, IsWellFormed)
            byCounterparty == LinesOfKind("counterparty")
            statistics == LinesOfKind("statistics")
            totals == LinesOfKind("unmatched_total")
        IN  /\ \A i \in 1..Len(byCounterparty) :
                  byCounterparty[i].total
                    = SumAmounts(SelectSeq(wellFormed,
                          LAMBDA e : e.counterparty = byCounterparty[i].counterparty))
            /\ \A i \in 1..Len(statistics) :
                  statistics[i].total = SumAmounts(wellFormed)
            /\ \A i \in 1..Len(totals) : totals[i].total = SumAmounts(wellFormed)
            /\ unmatched_sales # <<>> => Len(totals) = 1 /\ Len(statistics) = 1

\* The members of a group whose amount is added to one of the three sums.
IsSummed(e) == CheckCategory(e) \in {"sales", "expense", "transfer"}

\* C11 as stated: a malformed record never aborts the run, is counted in the
\* Sale / Transfer counts, is left out of matching and of every amount sum,
\* the three sums of its transaction-id group included, and the run goes
\* through to the final summary.
C11_MalformedLeftOutOfEverySum ==
    /\ RunsThrough
    /\ MalformedCounted
    /\ MalformedNotMatched
    /\ MalformedNotInUnmatchedSums
    /\ SumsOfLast =>
          sales_total + expense_total + transfer_total
            = SumAmounts(SelectSeq(LastMembers,
                                   LAMBDA e : IsSummed(e) /\ IsWellFormed(e)))

\* C11, amended: a malformed record never aborts the run, is counted in the
\* Sale / Transfer counts, is left out of matching and of every amount sum
\* over the unmatched sales, and the run goes through to the final summary; a
\* record whose amount is no integer is also left out of the three sums of
\* its transaction-id group, but a record with an integer amount whose date
\* lacks the date prefix is added to them.
C11_MalformedLeftOutOfUnmatchedSums ==
    /\ RunsThrough
    /\ MalformedCounted
    /\ MalformedNotMatched
    /\ MalformedNotInUnmatchedSums
    /\ SumsOfLast =>
          sales_total + expense_total + transfer_total
            = SumAmounts(SelectSeq(LastMembers,
                                   LAMBDA e : IsSummed(e) /\ HasIntAmount(e)))
    /\ SumsOfLast =>
          \A i \in 1..Len(LastMembers) :
              (HasIntAmount(LastMembers[i]) /\ MeetsSaleRule(LastMembers[i]))
                 => sales_total >= IntValue(LastMembers[i].amount)

\* A run that returned after printing the percentage, on a file with a sale
\* whose amount is no integer, a sale without date prefix and a well-formed
\* sale that stayed unmatched.
C11_Witness ==
    /\ pc = "done"
    /\ LinesOfKind("percentage") # <<>>
    /\ LinesOfKind("counterparty") # <<>>
    /\ LinesOfKind("sale") # <<>>
    /\ \E i \in 1..Len(sales_entries) : ~IsIntLiteral(sales_entries[i].amount)
    /\ \E i \in 1..Len(sales_entries) :
          /\ IsIntLiteral(sales_entries[i].amount)
          /\ ~HasDatePrefix(sales_entries[i].date)
    /\ Len(transactions_by_id) = 1
    /\ Len(transactions_by_id[1].val) = 3

\* ------------------------------------------------------------------------
\* Properties of the Matcher under a reordering of the file.
\* ------------------------------------------------------------------------
\* The Matcher has just finished on the file.
JustMatched == pc = "list"

\* A reordering sends the row at position i to position q[i].
Reorderings == {q \in [1..Len(rows) -> 1..Len(rows)] :
                   \A i, j \in 1..Len(rows) : q[i] = q[j] => i = j}

Reordered(q) == [n \in 1..Len(rows) |-> rows[CHOOSE i \in 1..Len(rows) : q[i] = n]]

\* The row is a sale that gets a MatchKey.
IsKeyedSale(row) ==
    /\ IsCandidate(row)
    /\ ClassifyRow(row) = "sale"
    /\ HasPair(MakeEntry(row, 0))

\* q keeps the file order of the sales inside every MatchKey group.
KeepsOrderInGroups(q) ==
    \A i, j \in 1..Len(rows) :
        ( /\ i < j
          /\ IsKeyedSale(rows[i])
          /\ IsKeyedSale(rows[j])
          /\ PairOf(MakeEntry(rows[i], 0)) = PairOf(MakeEntry(rows[j], 0)) )
        => q[i] < q[j]

\* No two records of the file have the same sequence number.
UniqueNumbers ==
    \A i, j \in 1..Len(rows) :
        (i # j /\ IsCandidate(rows[i]) /\ IsCandidate(rows[j]))
           => MakeEntry(rows[i], 0).no # MakeEntry(rows[j], 0).no

\* An entry without the identity of its dict object.
Content(e) == [e EXCEPT !.line = 0]

Contents(entries) == [i \in 1..Len(entries) |-> Content(entries[i])]

\* C12: on a file whose sequence numbers are unique, every reordering of the
\* rows that keeps the file order of the sales inside each MatchKey group
\* gives the same matched count, the same ordered list of unmatched sales
\* and the same listing.
C12_SameResultUnderReordering ==
    (JustMatched /\ UniqueNumbers) =>
        \A q \in Reorderings :
            KeepsOrderInGroups(q) =>
                LET other == MatcherOn(Reordered(q))
                IN  /\ other.matched_count = matched_count
                    /\ Contents(other.unmatched_sales) = Contents(unmatched_sales)
                    /\ Listing(Contents(other.unmatched_sales)).out
                         = Listing(Contents(unmatched_sales)).out

\* A file with a matched pair whose admissible reordering changes the order
\* in which the unmatched sales are collected before the sort.
C12_Witness ==
    /\ JustMatched
    /\ UniqueNumbers
    /\ Len(unmatched_sales) >= 2
    /\ \E q \in Reorderings :
          /\ KeepsOrderInGroups(q)
          /\ Contents(MatcherOn(Reordered(q)).surplus)
               # Contents(MatcherOn(rows).surplus)

\* ------------------------------------------------------------------------
\* Properties of the inconsistency report.
\* ------------------------------------------------------------------------
\* The report has been printed.
Reported == pc \in {"summary", "done"}

\* The groups the Consistency Checker flags: eligible, evaluated and beyond
\* the tolerance.
FlaggedGroups ==
    {g \in 1..Len(transactions_by_id) :
        LET members == transactions_by_id[g].val
            t == GroupTotals(members)
        IN  /\ Len(members) >= 3
            /\ t.sales > 0
            /\ t.transfer > 0
            /\ Abs(t.transfer - (t.sales - t.expense)) > 1}

Discrepancy(g) ==
    LET t == GroupTotals(transactions_by_id[g].val)
    IN  t.transfer - (t.sales - t.expense)

\* The flagged groups whose identifier a printed line names.
PrintedGroups ==
    {g \in FlaggedGroups :
        \E i \in 1..Len(LinesOfKind("inconsistency")) :
            LinesOfKind("inconsistency")[i].inc.id = transactions_by_id[g].key}

\* C13: with n flagged groups, the report prints min(10, n) of them, one line
\* block each, in non-increasing order of abs(discrepancy), none of the
\* groups left out has a larger abs(discrepancy) than a printed one, and a
\* line with the count n - 10 follows exactly when n > 10.
C13_TopTenByDiscrepancy ==
    Reported =>
        LET n == Cardinality(FlaggedGroups)
            printed == LinesOfKind("inconsistency")
            more == LinesOfKind("more_inconsistencies")
        IN  /\ Len(printed) = Min(10, n)
            /\ Cardinality(PrintedGroups) = Len(printed)
            /\ \A i \in 1..Len(printed) :
                  /\ printed[i].rank = i
                  /\ \E g \in FlaggedGroups :
                        /\ printed[i].inc.id = transactions_by_id[g].key
                        /\ printed[i].inc.difference = Discrepancy(g)
            /\ \A i, j \in 1..Len(printed) :
                  i < j => Abs(printed[i].inc.difference) >= Abs(printed[j].inc.difference)
            /\ \A g \in PrintedGroups, h \in FlaggedGroups \ PrintedGroups :
                  Abs(Discrepancy(g)) >= Abs(Discrepancy(h))
            /\ IF n > 10
               THEN Len(more) = 1 /\ more[1].count = n - 10
               ELSE more = <<>>

\* A report on more than 10 flagged groups whose discrepancies differ in
\* size, the first flagged group not being one of the largest.
C13_Witness ==
    /\ Reported
    /\ Cardinality(FlaggedGroups) > 10
    /\ LinesOfKind("more_inconsistencies") # <<>>
    /\ \E g, h \in FlaggedGroups :
          g < h /\ Abs(Discrepancy(g)) < Abs(Discrepancy(h))

\* ------------------------------------------------------------------------
\* Properties of the unmatched-sales listing.
\* ------------------------------------------------------------------------
\* The listing has been printed.
Listed == pc \in {"patterns", "ids", "check", "report", "summary", "done"}

\* The lines of the listing, in the order printed.
ListingLines ==
    SelectSeq(output, LAMBDA l : l.kind \in {"date", "sale", "description", "more"})

\* The number of sale lines among the first i lines of the listing.
SalesShownUpTo(i) ==
    Cardinality({j \in 1..i : ListingLines[j].kind = "sale"})

\* The date heading a line of the listing stands under.
HeadingOf(i) ==
    LET h == CHOOSE j \in 1..i :
                 /\ ListingLines[j].kind = "date"
                 /\ \A k \in (j + 1)..i : ListingLines[k].kind # "date"
    IN  ListingLines[h].date

\* The listing shows the first min(30, n) unmatched sales in the sorted
\* order, each under the heading of its date.
ShowsFirstThirty ==
    Listed =>
        LET n == Len(unmatched_sales)
            shown == LinesOfKind("sale")
            headings == LinesOfKind("date")
        IN  /\ Len(shown) = Min(30, n)
            /\ \A k \in 1..Len(shown) :
                  /\ shown[k].no = unmatched_sales[k].no
                  /\ shown[k].amount = IntValue(unmatched_sales[k].amount)
                  /\ shown[k].counterparty = unmatched_sales[k].counterparty
            /\ \A i \in 1..Len(ListingLines) :
                  ListingLines[i].kind = "sale" =>
                      /\ \E j \in 1..i : ListingLines[j].kind = "date"
                      /\ HeadingOf(i) = DateOnly(unmatched_sales[SalesShownUpTo(i)].date)
            /\ \A i, j \in 1..Len(headings) :
                  i < j => StrLess(headings[i].date, headings[j].date)

\* C14 as stated: the listing shows the first min(30, n) of the n unmatched
\* sales in the sorted order under their dates and, whenever n > 30, a line
\* reporting the n - 30 sales not shown, also when the 30th sale shown is
\* inside the last date group.
C14_ReportsRestWheneverTruncated ==
    /\ ShowsFirstThirty
    /\ Listed =>
          LET n == Len(unmatched_sales)
              more == LinesOfKind("more")
          IN  IF n > 30
              THEN Len(more) = 1 /\ more[1].remaining = n - 30
              ELSE more = <<>>

\* What the listing does: the line reporting the rest is printed only when a
\* further date group starts after 30 sales were shown.
C14_ReportsRestBeforeNextDate ==
    /\ ShowsFirstThirty
    /\ Listed =>
          LET n == Len(unmatched_sales)
              more == LinesOfKind("more")
          IN  IF n > 30 /\ DateOnly(unmatched_sales[n].date)
                             # DateOnly(unmatched_sales[30].date)
              THEN Len(more) = 1 /\ more[1].remaining = n - 30
              ELSE more = <<>>

\* More than 30 unmatched sales were listed and the 30th and the last one
\* have the same date.
C14_Witness ==
    /\ Listed
    /\ Len(unmatched_sales) > 30
    /\ DateOnly(unmatched_sales[Len(unmatched_sales)].date)
         = DateOnly(unmatched_sales[30].date)
    /\ Len(LinesOfKind("sale")) = 30

\* ------------------------------------------------------------------------
\* Properties of create_yayoi_transactions.
\* ------------------------------------------------------------------------
\* convert_to_yayoi has just handled a marketplace transaction.
JustConverted == conv_pc = "convert" /\ transaction_index >= 1

LastTransaction == mercari_transactions[transaction_index]

\* The value is an integer for int(): an int literal, or the default 0 of a
\* missing key.
IsInteger(v) == v = ABSENT \/ (v # NONE /\ IsIntLiteral(v))

\* The value is an integer > 0.
IsPositiveInteger(v) == v # ABSENT /\ v # NONE /\ IsIntLiteral(v) /\ IntValue(v) > 0

IsSalesEntry(e) == e.classification = SALE /\ e.account = SALE

IsFeeEntry(e) == e.classification = EXPENSE /\ e.account = SALES_FEE_ACCOUNT

IsShippingEntry(e) == e.classification = EXPENSE /\ e.account = SHIPPING_ACCOUNT

\* C15: a transaction whose product price is no integer yields no entry;
\* otherwise it yields one sales entry with the product price, then one
\* sales-fee entry iff the sales fee is an integer > 0, then one shipping
\* entry iff the shipping fee is an integer > 0, each expense entry with its
\* fee as the amount, and all entries have the formatted date, the
\* description "<id> <name>" and the counterparty of the transaction.
C15_FanOut ==
    JustConverted =>
        LET t == LastTransaction
            entries == yayoi_transactions
            fee == IsPositiveInteger(t.sales_fee)
            shipping == IsPositiveInteger(t.shipping_fee)
        IN  IF ~IsInteger(t.product_price) THEN entries = <<>>
            ELSE /\ Len(entries) = 1 + (IF fee THEN 1 ELSE 0) + (IF shipping THEN 1 ELSE 0)
                 /\ IsSalesEntry(entries[1])
                 /\ IsIntLiteral(entries[1].amount)
                 /\ IntValue(entries[1].amount)
                      = (IF t.product_price = ABSENT THEN 0 ELSE IntValue(t.product_price))
                 /\ fee => /\ IsFeeEntry(entries[2])
                           /\ IntValue(entries[2].amount) = IntValue(t.sales_fee)
                 /\ shipping =>
                       /\ IsShippingEntry(entries[Len(entries)])
                       /\ IntValue(entries[Len(entries)].amount) = IntValue(t.shipping_fee)
                 /\ \A i \in 1..Len(entries) :
                       /\ entries[i].date = entries[1].date
                       /\ entries[i].description = entries[1].description
                       /\ entries[i].counterparty = entries[1].counterparty
                       /\ entries[i].date = format_date(t.date)
                       /\ entries[i].description
                            = t.product_id \o <<32>> \o ReplaceSpaces(t.product_name)
                       /\ entries[i].counterparty
                            = (IF is_shop THEN MERCARI_SHOP ELSE MERCARI)

\* A transaction with an integer price, a sales fee of 0 and a shipping fee
\* that is no integer yielded the sales entry alone, dated 2025/07/01.
C15_Witness ==
    /\ JustConverted
    /\ LastTransaction.product_price = Amt1000
    /\ LastTransaction.sales_fee = Amt0
    /\ LastTransaction.shipping_fee = AmtNotInt
    /\ LastTransaction.date = DateShopFormat
    /\ Len(yayoi_transactions) = 1
    /\ yayoi_transactions[1].date = <<50, 48, 50, 53, 47, 48, 55, 47, 48, 49>>

\* ------------------------------------------------------------------------
\* Properties of the batches of convert_to_yayoi.
\* ------------------------------------------------------------------------
ConverterRunning == conv_pc \in {"convert", "write", "done"}

\* The ledger entries generated from the transactions handled so far, in
\* input order.
RECURSIVE GeneratedUpTo(_)
GeneratedUpTo(n) ==
    IF n = 0 THEN <<>>
    ELSE GeneratedUpTo(n - 1)
         \o create_yayoi_transactions(mercari_transactions[n], is_shop)

Generated == GeneratedUpTo(transaction_index)

\* An entry with every field but the settlement method.
WithoutMethod(e) ==
    [ date |-> e.date, classification |-> e.classification, account |-> e.account,
      description |-> e.description, counterparty |-> e.counterparty,
      amount |-> e.amount ]

AllWithoutMethod(entries) == [i \in 1..Len(entries) |-> WithoutMethod(entries[i])]

RECURSIVE BatchSizes(_)
BatchSizes(n) ==
    IF n = 0 THEN 0 ELSE BatchSizes(n - 1) + Len(transactions_by_method[n].val)

\* The batches are the classes of the generated entries under Class: one
\* batch per class, holding the entries of the class in input order, and
\* nothing else.
PartitionedBy(Class(_)) ==
    LET classes == {Class(Generated[p]) : p \in 1..Len(Generated)}
    IN  /\ Len(transactions_by_method) = Cardinality(classes)
        /\ BatchSizes(Len(transactions_by_method)) = Len(Generated)
        /\ \A c \in classes :
              \E b \in 1..Len(transactions_by_method) :
                  transactions_by_method[b].val
                    = AllWithoutMethod(SelectSeq(Generated, LAMBDA g : Class(g) = c))

\* No entry of a batch, and no row written to a file, has the settlement
\* method; a finished run has written each batch to a file of its own.
MethodRemoved ==
    /\ \A b \in 1..Len(transactions_by_method) :
          \A i \in 1..Len(transactions_by_method[b].val) :
              "method" \notin DOMAIN transactions_by_method[b].val[i]
    /\ \A f \in 1..Len(written) :
          \A i \in 1..Len(written[f].val) : "method" \notin DOMAIN written[f].val[i]
    /\ conv_pc = "done" =>
          /\ Len(written) = Len(transactions_by_method)
          /\ \A b \in 1..Len(transactions_by_method) :
                Len(written[b].val) = Len(transactions_by_method[b].val)

SettlementMethod(e) == e.method

\* The settlement method and, for an entry on その他の預金 whose account is
\* 支払手数料 or 荷造運賃, the account.
MethodAndExpenseAccount(e) ==
    << e.method,
       IF e.method = OTHER_DEPOSIT /\ e.account \in {SALES_FEE_ACCOUNT, SHIPPING_ACCOUNT}
       THEN e.account ELSE EMPTY_STR >>

\* C16 as stated: every generated entry is in exactly one batch, in input
\* order, two entries are in the same batch iff they have the same
\* settlement method, and the settlement method is removed from the entries
\* of the batches.
C16_PartitionBySettlementMethod ==
    ConverterRunning => (PartitionedBy(SettlementMethod) /\ MethodRemoved)

\* C16, amended: every generated entry is in exactly one batch, in input
\* order, two entries are in the same batch iff they have the same
\* settlement method and, when that method is その他の預金 and their accounts
\* are 支払手数料 or 荷造運賃, the same account; the settlement method is
\* removed from the entries of the batches.
C16_PartitionByMethodAndExpenseAccount ==
    ConverterRunning => (PartitionedBy(MethodAndExpenseAccount) /\ MethodRemoved)

\* A finished run with three batches, the sales-fee batch and the shipping
\* batch among them, and two entries in the sales batch.
C16_Witness ==
    /\ conv_pc = "done"
    /\ Len(transactions_by_method) = 3
    /\ Len(written) = 3
    /\ Len(transactions_by_method[1].val) >= 2
    /\ \E p, q \in 1..Len(Generated) :
          /\ Generated[p].method = Generated[q].method
          /\ Generated[p].account = SALES_FEE_ACCOUNT
          /\ Generated[q].account = SHIPPING_ACCOUNT

====
